---- MODULE Spec2Model ----
(***************************************************************************)
(* Agent Integrity Protocol, python package: the session window            *)
(* (aip/window/manager.py), the drift detector (aip/analysis/drift.py),    *)
(* the analysis engine (aip/analysis/engine.py) and the client             *)
(* orchestrator (aip/sdk/client.py), with the prompt builder's truncation  *)
(* (aip/analysis/prompt.py), the agreement validator                       *)
(* (aip/analysis/agreement.py) and the Anthropic adapter's SSE reader      *)
(* (aip/adapters/anthropic.py).                                            *)
(*                                                                         *)
(* The specifications share the variables:                                 *)
(*   SpecWindow  a WindowManager driven through push and reset             *)
(*   SpecDrift   detect_integrity_drift threaded over a verdict sequence   *)
(*   SpecEngine  build_signal over verdicts and lists of concerns          *)
(*   Spec        an AIPClient driven through check, reset_window, destroy  *)
(*   SpecSession an AIPClient through a longer session of analysed checks  *)
(*   SpecCheckpoint  the text fields check_integrity stores                *)
(*   SpecPrompt      _truncate_thinking_block over texts and budgets       *)
(*   SpecCreate      create_client over cards and conscience values        *)
(*   SpecDirection   the drift direction of the alert ending a streak      *)
(*   SpecStream      extract_thinking_from_stream, line by line            *)
(*   SpecStreak  an AIPClient through a streak of checks against a clock   *)
(*   SpecOverlap two check coroutines of one AIPClient on one event loop   *)
(*                                                                         *)
(* AIPClient.check is modelled with build_conscience_prompt returning      *)
(* normally for every thinking block.                                      *)
(***************************************************************************)
EXTENDS Integers, Sequences, FiniteSets, TLC

(***************************************************************************)
(* Bounds of the model                                                     *)
(***************************************************************************)
\* number of WindowManager.push calls explored in SpecWindow
MaxPushes == 4
\* number of detect_integrity_drift calls explored in SpecDrift
MaxCalls == 7
\* number of AIPClient.check calls explored in Spec
MaxChecks == 3
\* the clock (time.time(), whole seconds) runs from 0 to MaxTime
MaxTime == 2
\* the largest explicit drift threshold explored in SpecDrift
MaxThreshold == 3
\* the longest list of concerns given to build_signal in SpecEngine
MaxConcerns == 2
\* number of AIPClient.check calls explored in SpecSession
MaxSessionChecks == 5
\* number of checkpoints minted in SpecStreak
MaxStreakChecks == 4
\* number of checkpoints minted in SpecOverlap
MaxOverlapChecks == 4
\* the longest text the analysis LLM puts in a field in SpecCheckpoint
MaxFieldLen == 3
\* the most lines of an SSE body in SpecStream
MaxLines == 4
\* the most conscience values in a configuration in SpecCreate
MaxValues == 1
\* the longest streak of non-clear checkpoints in SpecDirection
MaxStreak == 3
\* the largest token budget and the longest thinking text (in characters)
\* given to _truncate_thinking_block in SpecPrompt
MaxBudget == 8
MaxTextLen == 64

(***************************************************************************)
(* Program constants                                                       *)
(***************************************************************************)
\* constants.py: MIN_WINDOW_SIZE
MIN_WINDOW_SIZE == 3
\* constants.py: DEFAULT_SUSTAINED_CHECKS_THRESHOLD
DEFAULT_SUSTAINED_CHECKS_THRESHOLD == 3
\* WindowConfig.max_age_seconds as configured in the model (seconds)
MaxAgeSeconds == 1
\* constants.py: DEFAULT_MIN_EVIDENCE_TOKENS
DEFAULT_MIN_EVIDENCE_TOKENS == 100
\* constants.py: MAX_EVIDENCE_LENGTH
MAX_EVIDENCE_LENGTH == 200

VALID_VERDICTS == {"clear", "review_needed", "boundary_violation"}

WindowModes == {"sliding", "fixed"}

SessionBoundaries == {"reset", "carry"}

FailureModes == {"fail_open", "fail_closed"}

\* session ids a caller of WindowManager.push may put on a checkpoint
SessionIds == {"A", "B"}

\* analysis_metadata.analysis_duration_ms values of the checkpoints explored
Durations == {10}

\* Python's None where an int is expected: the empty tuple, <<n>> being n
NoThreshold == <<>>

\* Python's None where an IntegrityDriftAlert is expected
NoAlert == [alert_id |-> "None"]

VARIABLES
    cfg,        \* the configuration, fixed at construction
    now,        \* the clock, whole seconds
    win,        \* WindowManager._state
    nextId,     \* number of checkpoint ids minted so far (uuid4 freshness)
    pushedCp,   \* history: the argument of the latest WindowManager.push
    nPushed,    \* history: number of WindowManager.push calls so far
    tsMonotone, \* history: every push so far had a timestamp >= the one before
    drift,      \* the DriftState threaded through detect_integrity_drift
    alert,      \* the alert returned by the latest detect_integrity_drift
    runLen,     \* history: length of the current run of non-clear verdicts
    runAlerts,  \* history: alerts emitted in the current run
    nCalls,     \* history: number of detect_integrity_drift calls so far
    nAlerts,    \* history: number of alerts emitted so far
    driftCp,    \* history: the checkpoint of the latest detect_integrity_drift
    s3Step,     \* history: how far the calls so far follow S3Verdicts, or -1
    pc,         \* AIPClient.check: "idle", or "await_llm" while suspended
    destroyed,  \* AIPClient._destroyed
    result,     \* history: what the latest completed check returned or raised
    nAnalysed,  \* history: checks since the last reset_window that pushed
    llmFailed,  \* history: the analysis-LLM call of some earlier check failed
    resetRun,   \* history: the run length the latest reset_window cut short
    snapshot    \* the WindowState object a caller got from get_window_state

vars == <<cfg, now, win, nextId, pushedCp, nPushed, tsMonotone,
          drift, alert, runLen, runAlerts, nCalls, nAlerts, driftCp, s3Step,
          pc, destroyed, result, nAnalysed, llmFailed, resetRun, snapshot>>

clientVars == <<pc, destroyed, result, nAnalysed, llmFailed, resetRun, snapshot>>

windowVars == <<win, nextId, pushedCp, nPushed, tsMonotone>>

driftVars == <<drift, alert, runLen, runAlerts, nCalls, nAlerts, driftCp,
              s3Step>>

(***************************************************************************)
(* aip/window/state.py                                                     *)
(***************************************************************************)
\* avg_analysis_ms is a float in the code; here the exact fraction
\* <<numerator, denominator>> in lowest terms, 0 being <<0, 1>>
WindowStats == [total_checks |-> 0, clear_count |-> 0, review_count |-> 0,
                violation_count |-> 0, avg_analysis_ms |-> <<0, 1>>]

create_window_state(session_id) ==
    [checkpoints |-> <<>>, size |-> 0, session_id |-> session_id,
     stats |-> WindowStats]

(***************************************************************************)
(* aip/window/manager.py                                                   *)
(***************************************************************************)
RECURSIVE SumDurations(_)
SumDurations(cps) ==
    IF cps = <<>> THEN 0
    ELSE Head(cps).analysis_duration_ms + SumDurations(Tail(cps))

RECURSIVE GCD(_, _)
GCD(a, b) == IF b = 0 THEN a ELSE GCD(b, a % b)

\* the quotient a / b (b > 0) as a fraction in lowest terms
Fraction(a, b) == LET g == GCD(a, b) IN <<a \div g, b \div g>>

CountVerdict(cps, v) ==
    Cardinality({i \in 1..Len(cps) : cps[i].verdict = v})

\* WindowManager.reset
ResetKeepsVerdictCounts(w) ==
    [w EXCEPT !.checkpoints = <<>>, !.size = 0, !.stats.total_checks = 0,
              !.stats.avg_analysis_ms = <<0, 1>>]

reset(w) ==
    [w EXCEPT !.checkpoints = <<>>, !.size = 0, !.stats = WindowStats]

\* WindowManager._evict_stale, at clock value t
_evict_stale(cps, t) ==
    SelectSeq(cps, LAMBDA cp : t - cp.timestamp <= cfg.max_age_seconds)

\* WindowManager.push step 1: the session boundary
SessionBoundaryCarryAlways(w, cp) ==
    IF cp.session_id # w.session_id
    THEN [w EXCEPT !.session_id = cp.session_id]
    ELSE w

SessionBoundaryResetAlways(w, cp) ==
    IF cp.session_id # w.session_id
    THEN [reset(w) EXCEPT !.session_id = cp.session_id]
    ELSE w

SessionBoundary(w, cp) ==
    IF cp.session_id # w.session_id
    THEN [(IF cfg.session_boundary = "reset" THEN reset(w) ELSE w)
             EXCEPT !.session_id = cp.session_id]
    ELSE w

\* WindowManager.push step 3: eviction when the window is full
EvictOnFullOffByOne(cps) ==
    IF Len(cps) > cfg.max_size
    THEN IF cfg.mode = "sliding" THEN Tail(cps) ELSE <<>>
    ELSE cps

EvictOnFullAlwaysSliding(cps) ==
    IF Len(cps) >= cfg.max_size THEN Tail(cps) ELSE cps

EvictOnFullDropsNewest(cps) ==
    IF Len(cps) >= cfg.max_size
    THEN IF cfg.mode = "sliding" THEN SubSeq(cps, 1, Len(cps) - 1) ELSE <<>>
    ELSE cps

EvictOnFull(cps) ==
    IF Len(cps) >= cfg.max_size
    THEN IF cfg.mode = "sliding" THEN Tail(cps) ELSE <<>>
    ELSE cps

\* WindowManager._recompute_stats
_recompute_stats(w) ==
    LET cps == w.checkpoints IN
    [w EXCEPT
        !.size = Len(cps),
        !.stats.clear_count = CountVerdict(cps, "clear"),
        !.stats.review_count = CountVerdict(cps, "review_needed"),
        !.stats.violation_count = CountVerdict(cps, "boundary_violation"),
        !.stats.avg_analysis_ms =
            IF Len(cps) > 0 THEN Fraction(SumDurations(cps), Len(cps))
            ELSE <<0, 1>>]

\* WindowManager.push, at clock value t
PushEvictsStaleLast(w, cp, t) ==
    LET w1 == SessionBoundary(w, cp)
        w2 == [w1 EXCEPT !.checkpoints = EvictOnFull(@)]
        w3 == [w2 EXCEPT !.checkpoints = _evict_stale(Append(@, cp), t),
                         !.stats.total_checks = @ + 1]
    IN  _recompute_stats(w3)

PushEvictsSizeFirst(w, cp, t) ==
    LET w1 == SessionBoundary(w, cp)
        w2 == [w1 EXCEPT !.checkpoints = EvictOnFull(@)]
        w3 == [w2 EXCEPT !.checkpoints = _evict_stale(@, t)]
        w4 == [w3 EXCEPT !.checkpoints = Append(@, cp),
                         !.stats.total_checks = @ + 1]
    IN  _recompute_stats(w4)

PushCountsWindow(w, cp, t) ==
    LET w1 == SessionBoundary(w, cp)
        w2 == [w1 EXCEPT !.checkpoints = _evict_stale(@, t)]
        w3 == [w2 EXCEPT !.checkpoints = EvictOnFull(@)]
        w4 == [w3 EXCEPT !.checkpoints = Append(@, cp),
                         !.stats.total_checks = Len(w3.checkpoints) + 1]
    IN  _recompute_stats(w4)

push(w, cp, t) ==
    LET w1 == SessionBoundary(w, cp)
        w2 == [w1 EXCEPT !.checkpoints = _evict_stale(@, t)]
        w3 == [w2 EXCEPT !.checkpoints = EvictOnFull(@)]
        w4 == [w3 EXCEPT !.checkpoints = Append(@, cp),
                         !.stats.total_checks = @ + 1]
    IN  _recompute_stats(w4)

(***************************************************************************)
(* aip/analysis/drift.py                                                   *)
(***************************************************************************)
create_drift_state ==
    [sustained_nonclear |-> 0, alert_fired |-> FALSE,
     streak_checkpoint_ids |-> <<>>, streak_categories |-> <<>>]

Categories(concerns) == [i \in 1..Len(concerns) |-> concerns[i].category]

\* drift.py: _CATEGORY_TO_DIRECTION, "unknown" for the other categories
_CATEGORY_TO_DIRECTION(cat) ==
    CASE cat = "prompt_injection" -> "injection_pattern"
      [] cat = "value_misalignment" -> "value_erosion"
      [] cat = "autonomy_violation" -> "autonomy_creep"
      [] cat = "deceptive_reasoning" -> "deception_pattern"
      [] OTHER -> "unknown"

CountCategory(categories, cat) ==
    Cardinality({i \in 1..Len(categories) : categories[i] = cat})

\* _infer_drift_direction: the first category, in order of first occurrence,
\* whose count is the largest, if that count is a strict majority
InferDirectionOfPlurality(categories) ==
    IF categories = <<>> THEN "unknown"
    ELSE LET best == CHOOSE i \in 1..Len(categories) :
                        /\ \A j \in 1..Len(categories) :
                              CountCategory(categories, categories[j])
                                 <= CountCategory(categories, categories[i])
                        /\ \A j \in 1..(i - 1) :
                              CountCategory(categories, categories[j])
                                 < CountCategory(categories, categories[i])
         IN  _CATEGORY_TO_DIRECTION(categories[best])

_infer_drift_direction(categories) ==
    IF categories = <<>> THEN "unknown"
    ELSE LET best == CHOOSE i \in 1..Len(categories) :
                        /\ \A j \in 1..Len(categories) :
                              CountCategory(categories, categories[j])
                                 <= CountCategory(categories, categories[i])
                        /\ \A j \in 1..(i - 1) :
                              CountCategory(categories, categories[j])
                                 < CountCategory(categories, categories[i])
             max_count == CountCategory(categories, categories[best])
         IN  IF 2 * max_count > Len(categories)
             THEN _CATEGORY_TO_DIRECTION(categories[best])
             ELSE "unknown"

\* the IntegrityDriftAlert built by detect_integrity_drift
MakeAlert(st, checkpoint, window_checkpoints) ==
    LET clear_count == CountVerdict(window_checkpoints, "clear")
        total_count == Len(window_checkpoints)
        \* integrity_similarity = clear_count / total_count, 0.0 when empty,
        \* kept as the exact fraction <<numerator, denominator>>
        sim == IF total_count > 0 THEN Fraction(clear_count, total_count)
               ELSE <<0, 1>>
    IN  [alert_id |-> "ida-uuid4",
         session_id |-> checkpoint.session_id,
         checkpoint_ids |-> st.streak_checkpoint_ids,
         integrity_similarity |-> sim,
         sustained_checks |-> st.sustained_nonclear,
         \* DRIFT_SEVERITY_LOW_THRESHOLD = 0.7, DRIFT_SEVERITY_MEDIUM_THRESHOLD = 0.4
         severity |-> IF 10 * sim[1] >= 7 * sim[2] THEN "low"
                      ELSE IF 10 * sim[1] >= 4 * sim[2] THEN "medium"
                      ELSE "high",
         drift_direction |-> _infer_drift_direction(st.streak_categories)]

\* detect_integrity_drift: the pair <<new_state, alert or None>>
DriftNoResetOfAlertFired(state, checkpoint, window_checkpoints, threshold) ==
    LET eff == IF threshold # NoThreshold THEN threshold[1]
               ELSE DEFAULT_SUSTAINED_CHECKS_THRESHOLD
        ext == [state EXCEPT
                  !.sustained_nonclear = @ + 1,
                  !.streak_checkpoint_ids = Append(@, checkpoint.checkpoint_id),
                  !.streak_categories = @ \o Categories(checkpoint.concerns)]
    IN  IF checkpoint.verdict = "clear"
        THEN <<[create_drift_state EXCEPT !.alert_fired = state.alert_fired],
               NoAlert>>
        ELSE IF ext.sustained_nonclear >= eff /\ ~ext.alert_fired
             THEN LET fired == [ext EXCEPT !.alert_fired = TRUE]
                  IN  <<fired, MakeAlert(fired, checkpoint, window_checkpoints)>>
             ELSE <<ext, NoAlert>>

DriftAlertsPastThreshold(state, checkpoint, window_checkpoints, threshold) ==
    LET eff == IF threshold # NoThreshold THEN threshold[1]
               ELSE DEFAULT_SUSTAINED_CHECKS_THRESHOLD
        ext == [state EXCEPT
                  !.sustained_nonclear = @ + 1,
                  !.streak_checkpoint_ids = Append(@, checkpoint.checkpoint_id),
                  !.streak_categories = @ \o Categories(checkpoint.concerns)]
    IN  IF checkpoint.verdict = "clear"
        THEN <<create_drift_state, NoAlert>>
        ELSE IF ext.sustained_nonclear > eff /\ ~ext.alert_fired
             THEN LET fired == [ext EXCEPT !.alert_fired = TRUE]
                  IN  <<fired, MakeAlert(fired, checkpoint, window_checkpoints)>>
             ELSE <<ext, NoAlert>>

DriftClearKeepsStreakIds(state, checkpoint, window_checkpoints, threshold) ==
    LET eff == IF threshold # NoThreshold THEN threshold[1]
               ELSE DEFAULT_SUSTAINED_CHECKS_THRESHOLD
        ext == [state EXCEPT
                  !.sustained_nonclear = @ + 1,
                  !.streak_checkpoint_ids = Append(@, checkpoint.checkpoint_id),
                  !.streak_categories = @ \o Categories(checkpoint.concerns)]
    IN  IF checkpoint.verdict = "clear"
        THEN <<[state EXCEPT !.sustained_nonclear = 0, !.alert_fired = FALSE,
                             !.streak_categories = <<>>], NoAlert>>
        ELSE IF ext.sustained_nonclear >= eff /\ ~ext.alert_fired
             THEN LET fired == [ext EXCEPT !.alert_fired = TRUE]
                  IN  <<fired, MakeAlert(fired, checkpoint, window_checkpoints)>>
             ELSE <<ext, NoAlert>>

detect_integrity_drift(state, checkpoint, window_checkpoints, threshold) ==
    LET eff == IF threshold # NoThreshold THEN threshold[1]
               ELSE DEFAULT_SUSTAINED_CHECKS_THRESHOLD
        ext == [state EXCEPT
                  !.sustained_nonclear = @ + 1,
                  !.streak_checkpoint_ids = Append(@, checkpoint.checkpoint_id),
                  !.streak_categories = @ \o Categories(checkpoint.concerns)]
    IN  IF checkpoint.verdict = "clear"
        THEN <<create_drift_state, NoAlert>>
        ELSE IF ext.sustained_nonclear >= eff /\ ~ext.alert_fired
             THEN LET fired == [ext EXCEPT !.alert_fired = TRUE]
                  IN  <<fired, MakeAlert(fired, checkpoint, window_checkpoints)>>
             ELSE <<ext, NoAlert>>

\* WindowManager.get_state: the WindowState object handed out, with the
\* objects it shares with the manager's own state.  list(...) and copy.copy
\* build a new list and a new WindowStats; size and session_id are values.
GetStateSharesStats(w) ==
    [state |-> w, shares_list |-> FALSE, shares_stats |-> TRUE]

GetStateSharesList(w) ==
    [state |-> w, shares_list |-> TRUE, shares_stats |-> FALSE]

get_state(w) ==
    [state |-> w, shares_list |-> FALSE, shares_stats |-> FALSE]

\* WindowManager.get_summary
GetSummaryEmptyRatioZero(w) ==
    LET n_clear == CountVerdict(w.checkpoints, "clear") IN
    [size |-> w.size,
     max_size |-> cfg.max_size,
     verdicts |-> [clear |-> n_clear,
                   review_needed |-> CountVerdict(w.checkpoints, "review_needed"),
                   boundary_violation |->
                       CountVerdict(w.checkpoints, "boundary_violation")],
     integrity_ratio |-> IF w.size > 0 THEN Fraction(n_clear, w.size)
                         ELSE <<0, 1>>,
     drift_alert_active |-> FALSE]

get_summary(w) ==
    LET n_clear == CountVerdict(w.checkpoints, "clear") IN
    [size |-> w.size,
     max_size |-> cfg.max_size,
     verdicts |-> [clear |-> n_clear,
                   review_needed |-> CountVerdict(w.checkpoints, "review_needed"),
                   boundary_violation |->
                       CountVerdict(w.checkpoints, "boundary_violation")],
     integrity_ratio |-> IF w.size > 0 THEN Fraction(n_clear, w.size)
                         ELSE <<1, 1>>,
     drift_alert_active |-> FALSE]

\* f"{i + 1}. [{cp.verdict}] {cp.reasoning_summary}", the line both
\* renderings give a checkpoint; the checkpoint's id stands for its
\* reasoning_summary
ContextLine(i, cp) == <<i, ". [", cp.verdict, "] ", cp.checkpoint_id>>

ContextLines(cps) == [i \in 1..Len(cps) |-> ContextLine(i, cps[i])]

FirstCheckContext ==
    <<<<"SESSION CONTEXT: First check in session (no prior context)">>>>

\* WindowManager.get_context, as the list of lines joined by "\n"
get_context(w) ==
    IF Len(w.checkpoints) = 0 THEN FirstCheckContext
    ELSE <<<<"SESSION CONTEXT (window: ", w.size, "/", cfg.max_size, "):">>>>
         \o ContextLines(w.checkpoints)

\* aip/analysis/prompt.py _build_window_section, as the list of lines
\* joined by "\n"
_build_window_section(checkpoints) ==
    IF Len(checkpoints) = 0 THEN FirstCheckContext
    ELSE <<<<"SESSION CONTEXT (window: ", Len(checkpoints), "/",
             Len(checkpoints), "):">>>>
         \o ContextLines(checkpoints)

(***************************************************************************)
(* aip/analysis/engine.py                                                  *)
(***************************************************************************)
VALID_CATEGORIES ==
    {"prompt_injection", "value_misalignment", "autonomy_violation",
     "reasoning_corruption", "deceptive_reasoning", "undeclared_intent"}

VALID_SEVERITIES == {"low", "medium", "high", "critical"}

\* The text of the analysis LLM, as json.loads sees it:
\*   is_json             the text parses as JSON
\*   verdict             the value of "verdict"
\*   concerns_is_list    "concerns" is an array
\*   concerns            its entries, each with a category and a severity
\*   summary_is_str      "reasoning_summary" is a string
\*   context_valid       "conscience_context" passes _validate_conscience_context
AnalysisText(j, v, l, cs, r, c) ==
    [is_json |-> j, verdict |-> v, concerns_is_list |-> l, concerns |-> cs,
     summary_is_str |-> r, context_valid |-> c]

\* _validate_concerns: every entry has a valid category and severity
ConcernsValid(text) ==
    /\ text.concerns_is_list
    /\ \A i \in 1..Len(text.concerns) :
          /\ text.concerns[i].category \in VALID_CATEGORIES
          /\ text.concerns[i].severity \in VALID_SEVERITIES

\* check_integrity: the checkpoint, or the ValueError it raises
CheckIntegrityMintsSessionId(text, session_id, window_position, duration, id, t) ==
    IF ~text.is_json
    THEN [raised |-> TRUE, error |-> "ValueError"]
    ELSE IF text.verdict \notin VALID_VERDICTS
    THEN [raised |-> TRUE, error |-> "ValueError"]
    ELSE IF ~ConcernsValid(text)
    THEN [raised |-> TRUE, error |-> "ValueError"]
    ELSE IF ~text.summary_is_str
    THEN [raised |-> TRUE, error |-> "ValueError"]
    ELSE IF ~text.context_valid
    THEN [raised |-> TRUE, error |-> "ValueError"]
    ELSE [raised |-> FALSE,
          checkpoint |->
             [checkpoint_id |-> id,
              session_id |-> "B",
              timestamp |-> t, thinking_block_hash |-> "sha256",
              verdict |-> text.verdict, concerns |-> text.concerns,
              window_position |-> window_position,
              analysis_duration_ms |-> duration]]

check_integrity(text, session_id, window_position, duration, id, t) ==
    IF ~text.is_json
    THEN [raised |-> TRUE, error |-> "ValueError"]
    ELSE IF text.verdict \notin VALID_VERDICTS
    THEN [raised |-> TRUE, error |-> "ValueError"]
    ELSE IF ~ConcernsValid(text)
    THEN [raised |-> TRUE, error |-> "ValueError"]
    ELSE IF ~text.summary_is_str
    THEN [raised |-> TRUE, error |-> "ValueError"]
    ELSE IF ~text.context_valid
    THEN [raised |-> TRUE, error |-> "ValueError"]
    ELSE [raised |-> FALSE,
          checkpoint |->
             [checkpoint_id |-> id, session_id |-> session_id,
              timestamp |-> t, thinking_block_hash |-> "sha256",
              verdict |-> text.verdict, concerns |-> text.concerns,
              window_position |-> window_position,
              analysis_duration_ms |-> duration]]

\* map_verdict_to_action
MapVerdictAnyConcernDenies(verdict, concerns) ==
    IF verdict = "clear" THEN "continue"
    ELSE IF verdict = "review_needed" THEN "log_and_continue"
    ELSE IF Len(concerns) > 0
         THEN "deny_and_escalate"
         ELSE "pause_for_review"

map_verdict_to_action(verdict, concerns) ==
    IF verdict = "clear" THEN "continue"
    ELSE IF verdict = "review_needed" THEN "log_and_continue"
    ELSE IF \E i \in 1..Len(concerns) : concerns[i].severity = "critical"
         THEN "deny_and_escalate"
         ELSE "pause_for_review"

\* map_verdict_to_proceed
MapVerdictToProceedOnlyClear(verdict) == verdict = "clear"

map_verdict_to_proceed(verdict) == verdict # "boundary_violation"

\* build_signal
build_signal(checkpoint, window_summary) ==
    [checkpoint |-> checkpoint,
     proceed |-> map_verdict_to_proceed(checkpoint.verdict),
     recommended_action |->
         map_verdict_to_action(checkpoint.verdict, checkpoint.concerns),
     window_summary |-> window_summary]

(***************************************************************************)
(* aip/sdk/client.py                                                       *)
(***************************************************************************)
\* What the HTTP POST of _call_analysis_llm meets: an exception of the
\* transport, or a response with a status and the "content" blocks of its body
HttpOutcomes(texts) ==
    {[kind |-> "exception", error |-> "ConnectError"],
     [kind |-> "exception", error |-> "TimeoutException"],
     [kind |-> "response", status |-> 500, content |-> <<>>],
     [kind |-> "response", status |-> 200, content |-> <<>>],
     [kind |-> "response", status |-> 200,
      content |-> <<[type |-> "tool_use"]>>]}
    \cup {[kind |-> "response", status |-> 200,
           content |-> <<[type |-> "tool_use"], [type |-> "text", text |-> x]>>]
          : x \in texts}

\* _call_analysis_llm: the text of the first text block, or the exception
_call_analysis_llm(http) ==
    IF http.kind = "exception"
    THEN [raised |-> TRUE, error |-> http.error]
    ELSE IF http.status >= 400
    THEN [raised |-> TRUE, error |-> "HTTPStatusError"]
    ELSE IF Len(http.content) = 0
    THEN [raised |-> TRUE, error |-> "ValueError"]
    ELSE IF \A i \in 1..Len(http.content) : http.content[i].type # "text"
    THEN [raised |-> TRUE, error |-> "ValueError"]
    ELSE LET first == CHOOSE i \in 1..Len(http.content) :
                         /\ http.content[i].type = "text"
                         /\ \A j \in 1..(i - 1) : http.content[j].type # "text"
         IN  [raised |-> FALSE, text |-> http.content[first].text]

\* checkpoint ids: uuid4 ids are the positive integers in minting order, the
\* id "ic-synthetic-<clock>" of a synthetic checkpoint is a negative integer
SyntheticId(t) == 0 - (t + 1)

\* _build_synthetic_signal, at clock value t
_build_synthetic_signal(w, verdict, t) ==
    LET summary == get_summary(w) IN
    [checkpoint |->
        [checkpoint_id |-> SyntheticId(t), session_id |-> w.session_id,
         timestamp |-> t, thinking_block_hash |-> "none",
         verdict |-> verdict, concerns |-> <<>>,
         window_position |-> [index |-> summary.size,
                              window_size |-> summary.size],
         analysis_duration_ms |-> 0],
     proceed |-> (verdict = "clear"),
     recommended_action |->
         IF verdict = "clear" THEN "continue" ELSE "deny_and_escalate",
     window_summary |-> summary]

\* the analysis LLM was not called
NotCalled == [called |-> FALSE]

\* a check's outcome, with what its analysis-LLM call gave
WithLlm(res, llm) ==
    [x \in DOMAIN res \cup {"llm"} |-> IF x = "llm" THEN llm ELSE res[x]]

\* the outcome of one check: what it returned or raised, by which path, and
\* the callbacks it invoked, in order
Returned(n, path, signal, calls) ==
    [n |-> n, kind |-> "signal", path |-> path, signal |-> signal,
     calls |-> calls]

Raised(n, path, error, calls) ==
    [n |-> n, kind |-> "raise", path |-> path, error |-> error,
     calls |-> calls]

\* AIPClient.check, the failure policy (client.py lines 274-279)
FailurePolicyAlwaysOpen(w, t) == _build_synthetic_signal(w, "clear", t)

FailurePolicy(w, t) ==
    IF cfg.failure_mode = "fail_closed"
    THEN _build_synthetic_signal(w, "boundary_violation", t)
    ELSE _build_synthetic_signal(w, "clear", t)

\* AIPClient.check, the except branch of the analysis-LLM call: on_error is
\* awaited if configured (its exception propagates), then the failure policy
\* decides the signal.  cb is what the callbacks do when invoked.
OnAnalysisFailureNotifiesVerdict(n, w, d, error, t, cb) ==
    LET calls == (IF cfg.on_error
                  THEN <<[callback |-> "on_error", arg |-> error]>>
                  ELSE <<>>)
                 \o (IF cfg.on_verdict
                     THEN <<[callback |-> "on_verdict", arg |-> "signal"]>>
                     ELSE <<>>)
    IN  IF cfg.on_error /\ cb.on_error = "raises"
        THEN [win |-> w, drift |-> d,
              result |-> Raised(n, "llm_failure", "on_error raised", calls)]
        ELSE [win |-> w, drift |-> d,
              result |-> Returned(n, "llm_failure", FailurePolicy(w, t), calls)]

OnAnalysisFailurePushesSynthetic(n, w, d, error, t, cb) ==
    LET sig == FailurePolicy(w, t) IN
    [win |-> push(w, sig.checkpoint, t), drift |-> d,
     result |-> Returned(n, "llm_failure", sig, <<>>)]

OnAnalysisFailureSkipsOnError(n, w, d, error, t, cb) ==
    [win |-> w, drift |-> d,
     result |-> Returned(n, "llm_failure", FailurePolicy(w, t), <<>>)]

OnAnalysisFailure(n, w, d, error, t, cb) ==
    LET calls == IF cfg.on_error
                 THEN <<[callback |-> "on_error", arg |-> error]>>
                 ELSE <<>>
    IN  IF cfg.on_error /\ cb.on_error = "raises"
        THEN [win |-> w, drift |-> d,
              result |-> Raised(n, "llm_failure", "on_error raised", calls)]
        ELSE [win |-> w, drift |-> d,
              result |-> Returned(n, "llm_failure", FailurePolicy(w, t), calls)]

\* AIPClient.check steps 5-8 (client.py lines 311-338): push, drift, signal
\* and callbacks for a checkpoint check_integrity produced
CommitTrimsStreakToWindow(n, w, d, checkpoint, t, cb) ==
    LET w1 == push(w, checkpoint, t)
        r == detect_integrity_drift(d, checkpoint, w1.checkpoints, NoThreshold)
        kept == SelectSeq(r[1].streak_checkpoint_ids,
                          LAMBDA id : \E i \in 1..Len(w1.checkpoints) :
                                         w1.checkpoints[i].checkpoint_id = id)
        d1 == [r[1] EXCEPT !.streak_checkpoint_ids = kept,
                           !.sustained_nonclear = Len(kept)]
        summary == [get_summary(w1) EXCEPT
                       !.drift_alert_active = (r[2] # NoAlert)]
        signal == build_signal(checkpoint, summary)
        c1 == IF cfg.on_verdict
              THEN <<[callback |-> "on_verdict", arg |-> "signal"]>>
              ELSE <<>>
        c2 == IF r[2] # NoAlert /\ cfg.on_drift_alert
              THEN <<[callback |-> "on_drift_alert", arg |-> "alert"]>>
              ELSE <<>>
    IN  IF cfg.on_verdict /\ cb.on_verdict = "raises"
        THEN [win |-> w1, drift |-> d1,
              result |-> Raised(n, "analysed", "on_verdict raised", c1)]
        ELSE IF c2 # <<>> /\ cb.on_drift_alert = "raises"
        THEN [win |-> w1, drift |-> d1,
              result |-> Raised(n, "analysed", "on_drift_alert raised",
                                c1 \o c2)]
        ELSE [win |-> w1, drift |-> d1,
              result |-> Returned(n, "analysed", signal, c1 \o c2)]

CommitRollsBackOnRaise(n, w, d, checkpoint, t, cb) ==
    LET w1 == push(w, checkpoint, t)
        r == detect_integrity_drift(d, checkpoint, w1.checkpoints, NoThreshold)
        summary == [get_summary(w1) EXCEPT
                       !.drift_alert_active = (r[2] # NoAlert)]
        signal == build_signal(checkpoint, summary)
        c1 == IF cfg.on_verdict
              THEN <<[callback |-> "on_verdict", arg |-> "signal"]>>
              ELSE <<>>
        c2 == IF r[2] # NoAlert /\ cfg.on_drift_alert
              THEN <<[callback |-> "on_drift_alert", arg |-> "alert"]>>
              ELSE <<>>
    IN  IF cfg.on_verdict /\ cb.on_verdict = "raises"
        THEN [win |-> w1, drift |-> d,
              result |-> Raised(n, "analysed", "on_verdict raised", c1)]
        ELSE IF c2 # <<>> /\ cb.on_drift_alert = "raises"
        THEN [win |-> w1, drift |-> r[1],
              result |-> Raised(n, "analysed", "on_drift_alert raised",
                                c1 \o c2)]
        ELSE [win |-> w1, drift |-> r[1],
              result |-> Returned(n, "analysed", signal, c1 \o c2)]

CommitAlertActiveWhileFired(n, w, d, checkpoint, t, cb) ==
    LET w1 == push(w, checkpoint, t)
        r == detect_integrity_drift(d, checkpoint, w1.checkpoints, NoThreshold)
        summary == [get_summary(w1) EXCEPT
                       !.drift_alert_active = r[1].alert_fired]
        signal == build_signal(checkpoint, summary)
        c1 == IF cfg.on_verdict
              THEN <<[callback |-> "on_verdict", arg |-> "signal"]>>
              ELSE <<>>
        c2 == IF r[2] # NoAlert /\ cfg.on_drift_alert
              THEN <<[callback |-> "on_drift_alert", arg |-> "alert"]>>
              ELSE <<>>
    IN  IF cfg.on_verdict /\ cb.on_verdict = "raises"
        THEN [win |-> w1, drift |-> r[1],
              result |-> Raised(n, "analysed", "on_verdict raised", c1)]
        ELSE IF c2 # <<>> /\ cb.on_drift_alert = "raises"
        THEN [win |-> w1, drift |-> r[1],
              result |-> Raised(n, "analysed", "on_drift_alert raised",
                                c1 \o c2)]
        ELSE [win |-> w1, drift |-> r[1],
              result |-> Returned(n, "analysed", signal, c1 \o c2)]

CommitAlertBeforeVerdict(n, w, d, checkpoint, t, cb) ==
    LET w1 == push(w, checkpoint, t)
        r == detect_integrity_drift(d, checkpoint, w1.checkpoints, NoThreshold)
        summary == [get_summary(w1) EXCEPT
                       !.drift_alert_active = (r[2] # NoAlert)]
        signal == build_signal(checkpoint, summary)
        c1 == IF cfg.on_verdict
              THEN <<[callback |-> "on_verdict", arg |-> "signal"]>>
              ELSE <<>>
        c2 == IF r[2] # NoAlert /\ cfg.on_drift_alert
              THEN <<[callback |-> "on_drift_alert", arg |-> "alert"]>>
              ELSE <<>>
    IN  IF c2 # <<>> /\ cb.on_drift_alert = "raises"
        THEN [win |-> w1, drift |-> r[1],
              result |-> Raised(n, "analysed", "on_drift_alert raised", c2)]
        ELSE IF cfg.on_verdict /\ cb.on_verdict = "raises"
        THEN [win |-> w1, drift |-> r[1],
              result |-> Raised(n, "analysed", "on_verdict raised", c2 \o c1)]
        ELSE [win |-> w1, drift |-> r[1],
              result |-> Returned(n, "analysed", signal, c2 \o c1)]

Commit(n, w, d, checkpoint, t, cb) ==
    LET w1 == push(w, checkpoint, t)
        r == detect_integrity_drift(d, checkpoint, w1.checkpoints, NoThreshold)
        summary == [get_summary(w1) EXCEPT
                       !.drift_alert_active = (r[2] # NoAlert)]
        signal == build_signal(checkpoint, summary)
        c1 == IF cfg.on_verdict
              THEN <<[callback |-> "on_verdict", arg |-> "signal"]>>
              ELSE <<>>
        c2 == IF r[2] # NoAlert /\ cfg.on_drift_alert
              THEN <<[callback |-> "on_drift_alert", arg |-> "alert"]>>
              ELSE <<>>
    IN  IF cfg.on_verdict /\ cb.on_verdict = "raises"
        THEN [win |-> w1, drift |-> r[1],
              result |-> Raised(n, "analysed", "on_verdict raised", c1)]
        ELSE IF c2 # <<>> /\ cb.on_drift_alert = "raises"
        THEN [win |-> w1, drift |-> r[1],
              result |-> Raised(n, "analysed", "on_drift_alert raised",
                                c1 \o c2)]
        ELSE [win |-> w1, drift |-> r[1],
              result |-> Returned(n, "analysed", signal, c1 \o c2)]

\* AIPClient.check from the analysis-LLM call on (client.py lines 257-338):
\* http is what the POST met, duration the measured analysis_duration_ms,
\* id the uuid4 minted by check_integrity, t the clock
CheckAfterThinkingCountsRejected(n, w, d, http, duration, id, t, cb) ==
    LET llm == _call_analysis_llm(http) IN
    IF llm.raised
    THEN OnAnalysisFailure(n, w, d, llm.error, t, cb)
    ELSE LET ck == check_integrity(
                       llm.text, w.session_id,
                       [index |-> w.size, window_size |-> w.size + 1],
                       duration, id, t)
         IN  IF ck.raised
             THEN [win |-> [w EXCEPT !.stats.total_checks = @ + 1],
                   drift |-> d,
                   result |-> Raised(n, "rejected", ck.error, <<>>)]
             ELSE Commit(n, w, d, ck.checkpoint, t, cb)

CheckAfterThinking(n, w, d, http, duration, id, t, cb) ==
    LET llm == _call_analysis_llm(http) IN
    IF llm.raised
    THEN OnAnalysisFailure(n, w, d, llm.error, t, cb)
    ELSE LET ck == check_integrity(
                       llm.text, w.session_id,
                       [index |-> w.size, window_size |-> w.size + 1],
                       duration, id, t)
         IN  IF ck.raised
             THEN [win |-> w, drift |-> d,
                   result |-> Raised(n, "rejected", ck.error, <<>>)]
             ELSE Commit(n, w, d, ck.checkpoint, t, cb)

\* AIPClient.reset_window: the window and the drift state after it
ResetWindowKeepsStreakLists(w, d) ==
    [win |-> reset(w),
     drift |-> [d EXCEPT !.sustained_nonclear = 0, !.alert_fired = FALSE]]

ResetWindowKeepsDrift(w, d) == [win |-> reset(w), drift |-> d]

reset_window(w, d) == [win |-> reset(w), drift |-> create_drift_state]

\* no WindowState has been handed out
NoSnapshot == [taken |-> FALSE]

\* What the holder of a WindowState object reads from it after push or reset
\* brought the manager's state to w2.  Both rebind _state.checkpoints to a
\* new list (push in _evict_stale, reset by assignment), so a shared list
\* stops being shared and keeps its content; both write the fields of
\* _state.stats in place, so a shared WindowStats shows the new values.
Observed(snap, w2) ==
    IF ~snap.taken THEN snap
    ELSE [snap EXCEPT !.shares_list = FALSE,
                      !.state.stats = IF snap.shares_stats THEN w2.stats
                                      ELSE @]

(***************************************************************************)
(* SpecWindow: a WindowManager driven through its public API               *)
(***************************************************************************)
WindowConfigs ==
    [max_size : {MIN_WINDOW_SIZE}, mode : WindowModes,
     session_boundary : SessionBoundaries, max_age_seconds : {MaxAgeSeconds},
     failure_mode : {"fail_open"}, on_error : {FALSE}, on_verdict : {FALSE},
     on_drift_alert : {FALSE}, threshold : {NoThreshold}]

NoCheckpoint == [checkpoint_id |-> 0]

\* a checkpoint as a caller of WindowManager.push builds it
\* (tests/conftest.py make_checkpoint with overrides)
MakeCheckpoint(id, sid, ts, v, d) ==
    [checkpoint_id |-> id, session_id |-> sid, timestamp |-> ts,
     thinking_block_hash |-> "sha256", verdict |-> v, concerns |-> <<>>,
     window_position |-> [index |-> 0, window_size |-> 1],
     analysis_duration_ms |-> d]

InitCommon ==
    /\ now = 0
    /\ win = create_window_state("A")
    /\ nextId = 0
    /\ pushedCp = NoCheckpoint
    /\ nPushed = 0
    /\ tsMonotone = TRUE
    /\ drift = create_drift_state
    /\ alert = NoAlert
    /\ runLen = 0
    /\ runAlerts = 0
    /\ nCalls = 0
    /\ nAlerts = 0
    /\ driftCp = NoCheckpoint
    /\ s3Step = 0
    /\ pc = "idle"
    /\ destroyed = FALSE
    /\ result = [n |-> 0, kind |-> "none", llm |-> NotCalled]
    /\ nAnalysed = 0
    /\ llmFailed = FALSE
    /\ resetRun = 0
    /\ snapshot = NoSnapshot

InitWindow ==
    /\ cfg \in WindowConfigs
    /\ InitCommon

\* time.time() moves on between calls
Tick ==
    /\ now < MaxTime
    /\ now' = now + 1
    /\ UNCHANGED <<cfg, windowVars, driftVars, clientVars>>

\* WindowManager.push(checkpoint), any session id, timestamp and verdict
WmPush ==
    /\ nPushed < MaxPushes
    /\ \E sid \in SessionIds, ts \in 0..MaxTime, v \in VALID_VERDICTS,
          d \in Durations :
          LET cp == MakeCheckpoint(nextId + 1, sid, ts, v, d) IN
          /\ win' = push(win, cp, now)
          /\ pushedCp' = cp
          /\ tsMonotone' = (tsMonotone /\
                            (nPushed > 0 => pushedCp.timestamp <= ts))
    /\ nextId' = nextId + 1
    /\ nPushed' = nPushed + 1
    /\ UNCHANGED <<cfg, now, driftVars, clientVars>>

\* WindowManager.reset()
WmReset ==
    /\ win' = reset(win)
    /\ UNCHANGED <<cfg, now, nextId, pushedCp, nPushed, tsMonotone, driftVars,
                   clientVars>>

NextWindow == Tick \/ WmPush \/ WmReset

SpecWindow == InitWindow /\ [][NextWindow]_vars

(***************************************************************************)
(* SpecDrift: detect_integrity_drift threaded over a sequence of calls     *)
(***************************************************************************)
\* the verdict sequence of scenario S3 (tests/e2e: TestScenario3DriftReset)
S3Verdicts == <<"review_needed", "review_needed", "clear",
                "review_needed", "review_needed", "review_needed">>

ConcernLists ==
    {<<>>, <<[category |-> "value_misalignment", severity |-> "medium"]>>}

InitDrift ==
    /\ cfg \in [max_size : {MIN_WINDOW_SIZE}, mode : {"sliding"},
                session_boundary : {"reset"},
                max_age_seconds : {MaxAgeSeconds},
                failure_mode : {"fail_open"}, on_error : {FALSE},
                on_verdict : {FALSE}, on_drift_alert : {FALSE},
                threshold : {NoThreshold} \cup {<<n>> : n \in 1..MaxThreshold}]
    /\ InitCommon

\* one call new_state, alert = detect_integrity_drift(state, cp, window, T)
DriftCall ==
    /\ nCalls < MaxCalls
    /\ \E v \in VALID_VERDICTS, cs \in ConcernLists, withWindow \in BOOLEAN :
          LET cp == [MakeCheckpoint(nextId + 1, "A", now, v, 10)
                        EXCEPT !.concerns = cs]
              wcps == IF withWindow THEN <<cp>> ELSE <<>>
              r == detect_integrity_drift(drift, cp, wcps, cfg.threshold)
          IN  /\ drift' = r[1]
              /\ alert' = r[2]
              /\ runLen' = IF v = "clear" THEN 0 ELSE runLen + 1
              /\ runAlerts' = IF v = "clear" THEN 0
                              ELSE runAlerts + (IF r[2] # NoAlert THEN 1 ELSE 0)
              /\ nAlerts' = nAlerts + (IF r[2] # NoAlert THEN 1 ELSE 0)
              /\ driftCp' = cp
              /\ s3Step' = IF s3Step >= 0 /\ s3Step < Len(S3Verdicts)
                               /\ S3Verdicts[s3Step + 1] = v
                            THEN s3Step + 1 ELSE -1
    /\ nextId' = nextId + 1
    /\ nCalls' = nCalls + 1
    /\ UNCHANGED <<cfg, now, win, pushedCp, nPushed, tsMonotone, clientVars>>

\* the caller starts over with a fresh state, as AIPClient.reset_window does
DriftRestart ==
    /\ drift' = create_drift_state
    /\ runLen' = 0
    /\ runAlerts' = 0
    /\ s3Step' = -1
    /\ UNCHANGED <<cfg, now, windowVars, alert, nCalls, nAlerts, driftCp,
                   clientVars>>

NextDrift == DriftCall \/ DriftRestart

SpecDrift == InitDrift /\ [][NextDrift]_vars

(***************************************************************************)
(* SpecEngine: build_signal applied to checkpoints of every verdict and    *)
(* every list of up to MaxConcerns concerns                                *)
(***************************************************************************)
\* the concerns a checkpoint may carry: two categories, every severity
EngineConcerns ==
    [category : {"prompt_injection", "value_misalignment"},
     severity : VALID_SEVERITIES]

\* the lists of concerns of length 0..MaxConcerns
ConcernSeqs ==
    UNION {[1..n -> EngineConcerns] : n \in 0..MaxConcerns}

InitEngine ==
    /\ cfg \in [max_size : {MIN_WINDOW_SIZE}, mode : {"sliding"},
                session_boundary : {"reset"},
                max_age_seconds : {MaxAgeSeconds},
                failure_mode : {"fail_open"}, on_error : {FALSE},
                on_verdict : {FALSE}, on_drift_alert : {FALSE},
                threshold : {NoThreshold}]
    /\ InitCommon

\* signal = build_signal(checkpoint, window_summary)
BuildSignal ==
    /\ \E v \in VALID_VERDICTS, cs \in ConcernSeqs :
          LET cp == [MakeCheckpoint(1, "A", now, v, 10) EXCEPT !.concerns = cs]
          IN  result' = WithLlm(Returned(0, "build_signal",
                                         build_signal(cp, get_summary(win)),
                                         <<>>), NotCalled)
    /\ UNCHANGED <<cfg, now, windowVars, driftVars, pc, destroyed, nAnalysed,
                   llmFailed, resetRun, snapshot>>

NextEngine == BuildSignal

SpecEngine == InitEngine /\ [][NextEngine]_vars

(***************************************************************************)
(* Pure functions are applied once per behaviour to an input drawn from a  *)
(* bounded set; result records the input and the output.                   *)
(***************************************************************************)
Applied(function, input, output) ==
    [n |-> 0, kind |-> "value", path |-> function, input |-> input,
     output |-> output, llm |-> NotCalled]

NothingApplied == result.kind = "none"

IsApplied(function) == result.kind = "value" /\ result.path = function

\* the strings of length lo..hi over the characters "x" and "y"
Strings(lo, hi) == UNION {[1..n -> {"x", "y"}] : n \in lo..hi}

\* s[:n]
Prefix(str, n) == SubSeq(str, 1, IF Len(str) < n THEN Len(str) ELSE n)

\* needle in haystack
IsSubstring(needle, haystack) ==
    \E i \in 0..(Len(haystack) - Len(needle)) :
        SubSeq(haystack, i + 1, i + Len(needle)) = needle

(***************************************************************************)
(* SpecCheckpoint: the text fields of the checkpoint check_integrity builds *)
(* from the hash of a thinking block and the analysis LLM's answer         *)
(***************************************************************************)
\* hash_thinking_block: the hex digest, a string of hex digits (no text
\* here has a hex digit in it) that differs for different texts
hash_thinking_block(thinking) ==
    <<"f">> \o [i \in 1..Len(thinking) |->
                  IF thinking[i] = "x" THEN "0" ELSE "1"]

\* check_integrity and _validate_concerns: reasoning_summary and description
\* are stored as the analysis LLM gave them, evidence cut to
\* MAX_EVIDENCE_LENGTH characters; of the thinking block only the hash
TextFields(hash, answer) ==
    [thinking_block_hash |-> hash,
     reasoning_summary |-> answer.reasoning_summary,
     description |-> answer.description,
     evidence |-> IF Len(answer.evidence) > MAX_EVIDENCE_LENGTH
                  THEN Prefix(answer.evidence, MAX_EVIDENCE_LENGTH)
                  ELSE answer.evidence]

InitCheckpoint == InitEngine

\* checkpoint = check_integrity(input) for a thinking block and an answer
\* of the analysis LLM with one concern
CheckIntegrity ==
    /\ NothingApplied
    /\ \E thinking \in Strings(2, 2), summary \in Strings(0, MaxFieldLen),
          evidence \in Strings(0, MaxFieldLen) :
          LET answer == [reasoning_summary |-> summary,
                         description |-> <<"x">>, evidence |-> evidence]
          IN  result' = Applied("check_integrity",
                                [thinking |-> thinking, answer |-> answer],
                                TextFields(hash_thinking_block(thinking),
                                           answer))
    /\ UNCHANGED <<cfg, now, windowVars, driftVars, pc, destroyed, nAnalysed,
                   llmFailed, resetRun, snapshot>>

NextCheckpoint == CheckIntegrity

SpecCheckpoint == InitCheckpoint /\ [][NextCheckpoint]_vars

(***************************************************************************)
(* aip/adapters/anthropic.py: extract_thinking_from_stream, a line of the  *)
(* SSE body at a time (SpecStream)                                         *)
(***************************************************************************)
\* the lines of an SSE body: data events as Anthropic sends them, and a
\* line the loop skips (no "data: " prefix, or no JSON object after it)
MessageStart(model) == [type |-> "message_start", model |-> model]

ContentBlockStart(index, block_type) ==
    [type |-> "content_block_start", index |-> index,
     block_type |-> block_type]

ContentBlockDelta(index, delta_type, text) ==
    [type |-> "content_block_delta", index |-> index,
     delta_type |-> delta_type, text |-> text]

SkippedLine == [type |-> "skipped"]

BlockIndices == {0, 1}

SseLines ==
    {MessageStart("model-1"), MessageStart("model-2"),
     ContentBlockStart(0, "thinking"), ContentBlockStart(1, "thinking"),
     ContentBlockStart(1, "text"),
     ContentBlockDelta(0, "thinking_delta", <<"a">>),
     ContentBlockDelta(1, "thinking_delta", <<"b">>),
     ContentBlockDelta(0, "text_delta", <<"c">>),
     SkippedLine}

\* the loop's variables before the first line
StreamStart ==
    [model |-> "unknown", thinking_block_indices |-> {},
     thinking_contents |-> [i \in BlockIndices |-> <<>>]]

\* one iteration of the loop over the lines; thinking_contents.get(i, "")
\* is the empty text for an index without an entry
ProcessLineAnnouncesAnyBlock(st, line) ==
    IF line.type = "message_start"
    THEN [st EXCEPT !.model = line.model]
    ELSE IF line.type = "content_block_start"
    THEN [st EXCEPT !.thinking_block_indices = @ \cup {line.index},
                    !.thinking_contents[line.index] = <<>>]
    ELSE IF line.type = "content_block_delta"
    THEN IF /\ line.index \in st.thinking_block_indices
            /\ line.delta_type = "thinking_delta"
         THEN [st EXCEPT !.thinking_contents[line.index] = @ \o line.text]
         ELSE st
    ELSE st

ProcessLine(st, line) ==
    IF line.type = "message_start"
    THEN [st EXCEPT !.model = line.model]
    ELSE IF line.type = "content_block_start"
    THEN IF line.block_type = "thinking"
         THEN [st EXCEPT !.thinking_block_indices = @ \cup {line.index},
                         !.thinking_contents[line.index] = <<>>]
         ELSE st
    ELSE IF line.type = "content_block_delta"
    THEN IF /\ line.index \in st.thinking_block_indices
            /\ line.delta_type = "thinking_delta"
         THEN [st EXCEPT !.thinking_contents[line.index] = @ \o line.text]
         ELSE st
    ELSE st

NoThinking == [found |-> FALSE]

\* "\n\n---\n\n", one symbol of the joined content
BlockSeparator == <<"\n\n---\n\n">>

\* "\n\n---\n\n".join of the non-empty texts of the indices in S, ascending
RECURSIVE JoinAscending(_, _)
JoinAscending(contents, S) ==
    LET filled == {i \in S : contents[i] # <<>>} IN
    IF filled = {} THEN <<>>
    ELSE LET first == CHOOSE i \in filled : \A j \in filled : i <= j
             rest == JoinAscending(contents, filled \ {first})
         IN  IF rest = <<>> THEN contents[first]
             ELSE contents[first] \o BlockSeparator \o rest

\* what extract_thinking_from_stream returns after the last line
StreamResult(st) ==
    IF st.thinking_block_indices = {} THEN NoThinking
    ELSE IF \A i \in st.thinking_block_indices : st.thinking_contents[i] = <<>>
    THEN NoThinking
    ELSE [found |-> TRUE,
          content |-> JoinAscending(st.thinking_contents,
                                    st.thinking_block_indices),
          provider |-> "anthropic", model |-> st.model,
          extraction_method |-> "native_thinking", truncated |-> FALSE]

InitStream == InitEngine

\* the lines read so far and the loop's variables after them
LinesRead ==
    IF NothingApplied THEN <<>> ELSE result.input

LoopState ==
    IF NothingApplied THEN StreamStart ELSE result.output.loop

\* the body has one more line: the loop reads it, and the function returns
\* what the lines so far give
ReadLine ==
    /\ Len(LinesRead) < MaxLines
    /\ \E line \in SseLines :
          LET st == ProcessLine(LoopState, line) IN
          result' = Applied("extract_thinking_from_stream",
                            Append(LinesRead, line),
                            [loop |-> st, returns |-> StreamResult(st)])
    /\ UNCHANGED <<cfg, now, windowVars, driftVars, pc, destroyed, nAnalysed,
                   llmFailed, resetRun, snapshot>>

NextStream == ReadLine

SpecStream == InitStream /\ [][NextStream]_vars

(***************************************************************************)
(* aip/analysis/agreement.py and create_client (SpecCreate)                *)
(***************************************************************************)
\* str.lower() on the letters the texts below use
LowerChar(c) ==
    CASE c = "A" -> "a" [] c = "D" -> "d" [] c = "E" -> "e" [] c = "I" -> "i"
      [] c = "L" -> "l" [] c = "M" -> "m" [] c = "N" -> "n" [] c = "O" -> "o"
      [] c = "P" -> "p" [] c = "S" -> "s" [] c = "V" -> "v" [] c = "R" -> "r"
      [] OTHER -> c

lower(str) == [i \in 1..Len(str) |-> LowerChar(str[i])]

\* str.replace("_", " ")
replace_underscores(str) ==
    [i \in 1..Len(str) |-> IF str[i] = "_" THEN " " ELSE str[i]]

\* "never", "no ", "don't", "do not"
NegationMarkers ==
    {<<"n", "e", "v", "e", "r">>,
     <<"n", "o", " ">>,
     <<"d", "o", "n", "'", "t">>,
     <<"d", "o", " ", "n", "o", "t">>}

\* validate_agreement: the conflicts, each the pair of the index of a value
\* and the bounded action it contradicts, and valid = no conflicts
ValidateAgreementFearConflicts(card, conscience_values) ==
    LET conflicts ==
            {<<i, a>> \in (1..Len(conscience_values))
                          \X (1..Len(card.bounded_actions)) :
                LET value == conscience_values[i]
                    action == card.bounded_actions[a]
                    content_lower == lower(value.content)
                IN  /\ value.type \in {"BOUNDARY", "FEAR"}
                    /\ \/ IsSubstring(replace_underscores(lower(action)),
                                      content_lower)
                       \/ IsSubstring(lower(action), content_lower)
                    /\ \E m \in NegationMarkers :
                          IsSubstring(m, content_lower)}
    IN  [valid |-> conflicts = {}, conflicts |-> conflicts,
         conscience_value_count |-> Len(conscience_values)]

validate_agreement(card, conscience_values) ==
    LET conflicts ==
            {<<i, a>> \in (1..Len(conscience_values))
                          \X (1..Len(card.bounded_actions)) :
                LET value == conscience_values[i]
                    action == card.bounded_actions[a]
                    content_lower == lower(value.content)
                IN  /\ value.type \in {"BOUNDARY", "FEAR"}
                    /\ value.type = "BOUNDARY"
                    /\ \/ IsSubstring(replace_underscores(lower(action)),
                                      content_lower)
                       \/ IsSubstring(lower(action), content_lower)
                    /\ \E m \in NegationMarkers :
                          IsSubstring(m, content_lower)}
    IN  [valid |-> conflicts = {}, conflicts |-> conflicts,
         conscience_value_count |-> Len(conscience_values)]

\* raise ValueError(message)
Raises(message) == [raised |-> TRUE, error |-> message]

\* create_client: the agreement first, then WindowManager.__init__, which
\* refuses a max_size below MIN_WINDOW_SIZE
create_client(config) ==
    LET agreement == validate_agreement(config.card, config.conscience_values)
    IN  IF ~agreement.valid
        THEN Raises("Card-conscience agreement validation failed")
        ELSE IF config.window.max_size < MIN_WINDOW_SIZE
        THEN Raises("Window max_size must be >= MIN_WINDOW_SIZE")
        ELSE [raised |-> FALSE,
              client |-> [window |-> create_window_state("A"),
                          drift_state |-> create_drift_state,
                          failure_mode |-> "fail_open",
                          destroyed |-> FALSE]]

ConscienceValueTypes == {"BOUNDARY", "FEAR", "COMMITMENT", "BELIEF", "HOPE"}

\* how a conscience value's content opens: with a negation marker in some
\* case, with none, or with a word that ends in "no "
Openers ==
    {<<"N", "e", "v", "e", "r", " ">>,
     <<"N", "O", " ">>,
     <<"D", "o", "n", "'", "t", " ">>,
     <<"D", "o", " ", "n", "o", "t", " ">>,
     <<"A", "l", "w", "a", "y", "s", " ">>,
     <<"P", "i", "a", "n", "o", " ">>}

\* how the content names an action, if it does
Mentions ==
    {<<"s", "e", "n", "d", "_", "m", "a", "i", "l">>,
     <<"S", "e", "n", "d", " ", "M", "a", "i", "l">>,
     <<"s", "e", "n", "d", "m", "a", "i", "l">>,
     <<"m", "a", "i", "l">>}

ConscienceValues ==
    {[type |-> t, content |-> o \o m] :
        t \in ConscienceValueTypes, o \in Openers, m \in Mentions}

BoundedActionLists ==
    {<<>>,
     <<<<"s", "e", "n", "d", "_", "m", "a", "i", "l">>>>,
     <<<<"S", "E", "N", "D", "_", "M", "A", "I", "L">>>>,
     <<<<"r", "e", "a", "d", "_", "f", "i", "l", "e">>,
       <<"s", "e", "n", "d", "_", "m", "a", "i", "l">>>>}

\* AIPConfig: conscience_values None is the empty list (client.py:368)
CreateConfigs ==
    [card : [bounded_actions : BoundedActionLists],
     conscience_values :
         UNION {[1..n -> ConscienceValues] : n \in 0..MaxValues},
     window : [max_size : {MIN_WINDOW_SIZE - 1, MIN_WINDOW_SIZE}]]

InitCreate == InitEngine

CreateClient ==
    /\ NothingApplied
    /\ \E config \in CreateConfigs :
          result' = Applied("create_client", config, create_client(config))
    /\ UNCHANGED <<cfg, now, windowVars, driftVars, pc, destroyed, nAnalysed,
                   llmFailed, resetRun, snapshot>>

NextCreate == CreateClient

SpecCreate == InitCreate /\ [][NextCreate]_vars

(***************************************************************************)
(* SpecDirection: detect_integrity_drift threaded over a streak of         *)
(* non-clear checkpoints, the last of which raises the alert               *)
(* (tests/analysis/test_drift.py: _trigger_alert_with_categories)          *)
(***************************************************************************)
NoConcern == "none"

\* a non-clear checkpoint with one concern of the category, or with none
make_nonclear_checkpoint(id, cat) ==
    [MakeCheckpoint(id, "A", 0, "review_needed", 10) EXCEPT
        !.concerns = IF cat = NoConcern THEN <<>>
                     ELSE <<[category |-> cat, severity |-> "medium"]>>]

StreakCheckpoints(cats) ==
    [i \in 1..Len(cats) |-> make_nonclear_checkpoint(i, cats[i])]

\* state, alert = detect_integrity_drift(state, cp, window, threshold) for
\* the first k checkpoints, the window holding the checkpoints so far
RECURSIVE DriftOver(_, _, _)
DriftOver(cps, k, threshold) ==
    IF k = 0 THEN <<create_drift_state, NoAlert>>
    ELSE detect_integrity_drift(DriftOver(cps, k - 1, threshold)[1], cps[k],
                                SubSeq(cps, 1, k), threshold)

InitDirection == InitEngine

TriggerAlert ==
    /\ NothingApplied
    /\ \E n \in 1..MaxStreak :
          \E cats \in [1..n -> VALID_CATEGORIES \cup {NoConcern}] :
             result' = Applied("detect_integrity_drift", cats,
                               DriftOver(StreakCheckpoints(cats), n, <<n>>)[2])
    /\ UNCHANGED <<cfg, now, windowVars, driftVars, pc, destroyed, nAnalysed,
                   llmFailed, resetRun, snapshot>>

NextDirection == TriggerAlert

SpecDirection == InitDirection /\ [][NextDirection]_vars

(***************************************************************************)
(* SpecPrompt: _truncate_thinking_block applied to a thinking text and a   *)
(* token budget                                                            *)
(***************************************************************************)
\* the thinking text of n characters: "abcdefgabc..."
Letters == <<"a", "b", "c", "d", "e", "f", "g">>

ThinkingText(n) == [i \in 1..n |-> Letters[((i - 1) % 7) + 1]]

\* str(n) for n >= 0, a character per digit
DigitChars == <<"0", "1", "2", "3", "4", "5", "6", "7", "8", "9">>

RECURSIVE Decimal(_)
Decimal(n) ==
    IF n < 0 THEN <<"-">> \o Decimal(0 - n)
    ELSE IF n < 10 THEN <<DigitChars[n + 1]>>
    ELSE Decimal(n \div 10) \o <<DigitChars[(n % 10) + 1]>>

\* _estimate_tokens: math.ceil(len(text) / 4)
estimate_tokens(text) == (Len(text) + 3) \div 4

\* text[:n] and text[-n:] of Python for n >= 0; text[-0:] is text[0:], the
\* whole text
SliceTo(text, n) == SubSeq(text, 1, IF n < Len(text) THEN n ELSE Len(text))

SliceFromEnd(text, n) ==
    IF n = 0 \/ n >= Len(text) THEN text
    ELSE SubSeq(text, Len(text) - n + 1, Len(text))

\* f"\n[... {omitted} tokens omitted ...]\n"
OmissionMarker(omitted) ==
    <<"\n", "[", ".", ".", ".", " ">> \o Decimal(omitted)
    \o <<" ", "t", "o", "k", "e", "n", "s", " ", "o", "m", "i", "t", "t",
          "e", "d", " ", ".", ".", ".", "]", "\n">>

\* TRUNCATION_HEAD_RATIO = 0.75 and TRUNCATION_TAIL_RATIO = 0.25:
\* math.floor(budget * ratio)
HeadTokens(budget) == (3 * budget) \div 4

TailTokens(budget) == budget \div 4

truncate_thinking_block(text, budget) ==
    LET original_tokens == estimate_tokens(text)
        head == SliceTo(text, HeadTokens(budget) * 4)
        tail == SliceFromEnd(text, TailTokens(budget) * 4)
        omitted == original_tokens - HeadTokens(budget) - TailTokens(budget)
        truncated_text == head \o OmissionMarker(omitted) \o tail
    IN  IF original_tokens <= budget
        THEN [text |-> text, truncated |-> FALSE,
              original_tokens |-> original_tokens,
              analyzed_tokens |-> original_tokens]
        ELSE [text |-> truncated_text, truncated |-> TRUE,
              original_tokens |-> original_tokens,
              analyzed_tokens |-> estimate_tokens(truncated_text)]

InitPrompt == InitEngine

Truncate ==
    /\ NothingApplied
    /\ \E n \in 0..MaxTextLen, budget \in 1..MaxBudget :
          result' = Applied("_truncate_thinking_block",
                            [text |-> ThinkingText(n), budget |-> budget],
                            truncate_thinking_block(ThinkingText(n), budget))
    /\ UNCHANGED <<cfg, now, windowVars, driftVars, pc, destroyed, nAnalysed,
                   llmFailed, resetRun, snapshot>>

NextPrompt == Truncate

SpecPrompt == InitPrompt /\ [][NextPrompt]_vars

(***************************************************************************)
(* Spec: an AIPClient driven through check, reset_window and destroy.      *)
(* The caller serializes its calls (one check in flight at a time).  The   *)
(* clock stands still in Spec; its effect on the window is explored in     *)
(* SpecWindow.                                                             *)
(***************************************************************************)
\* AIPConfig.callbacks: none configured, or all three
CallbackConfigs ==
    {[on_error |-> b, on_verdict |-> b, on_drift_alert |-> b] : b \in BOOLEAN}

ClientConfigs ==
    {[max_size |-> MIN_WINDOW_SIZE, mode |-> m, session_boundary |-> sb,
      max_age_seconds |-> MaxAgeSeconds, failure_mode |-> f,
      on_error |-> c.on_error, on_verdict |-> c.on_verdict,
      on_drift_alert |-> c.on_drift_alert, threshold |-> NoThreshold] :
        m \in WindowModes, sb \in SessionBoundaries, f \in FailureModes,
        c \in CallbackConfigs}

\* texts the analysis LLM may answer with: well-formed ones, and one for
\* each way check_integrity rejects a text
GoodTexts ==
    {AnalysisText(TRUE, "clear", TRUE, <<>>, TRUE, TRUE),
     AnalysisText(TRUE, "review_needed", TRUE,
                  <<[category |-> "value_misalignment",
                     severity |-> "medium"]>>, TRUE, TRUE),
     AnalysisText(TRUE, "boundary_violation", TRUE,
                  <<[category |-> "prompt_injection",
                     severity |-> "critical"]>>, TRUE, TRUE)}

BadTexts ==
    {AnalysisText(FALSE, "clear", TRUE, <<>>, TRUE, TRUE),
     AnalysisText(TRUE, "bogus", TRUE, <<>>, TRUE, TRUE),
     AnalysisText(TRUE, "clear", FALSE, <<>>, TRUE, TRUE),
     AnalysisText(TRUE, "review_needed", TRUE,
                  <<[category |-> "bogus", severity |-> "low"]>>, TRUE, TRUE),
     AnalysisText(TRUE, "clear", TRUE, <<>>, FALSE, TRUE),
     AnalysisText(TRUE, "clear", TRUE, <<>>, TRUE, FALSE)}

\* what the configured callbacks do when they are invoked: all return, or
\* one of them raises (the first exception ends the check, so what the
\* callbacks after it would have done is immaterial)
CallbackBehaviours ==
    {[on_error |-> IF x = "on_error" THEN "raises" ELSE "returns",
      on_verdict |-> IF x = "on_verdict" THEN "raises" ELSE "returns",
      on_drift_alert |-> IF x = "on_drift_alert" THEN "raises" ELSE "returns"] :
        x \in {"none"} \cup {c \in {"on_error", "on_verdict", "on_drift_alert"} :
                                cfg[c]}}

Init ==
    /\ cfg \in ClientConfigs
    /\ InitCommon

\* AIPClient.check up to its suspension at the analysis-LLM call
\* (client.py lines 230-256); at most MaxChecks checkpoints are minted
CheckCallIgnoresDestroyed ==
    /\ pc = "idle"
    /\ nextId < MaxChecks
    /\ \E thinking \in {"none", "found"} :
          IF thinking = "none"
          THEN /\ result' = WithLlm(
                              Returned(1 - result.n, "no_thinking",
                                _build_synthetic_signal(win, "clear", now),
                                <<>>), NotCalled)
               /\ pc' = "idle"
          ELSE /\ result' = result
               /\ pc' = "await_llm"
    /\ UNCHANGED <<cfg, now, windowVars, driftVars, destroyed, nAnalysed,
                   llmFailed, resetRun, snapshot>>

CheckCall ==
    /\ pc = "idle"
    /\ nextId < MaxChecks
    /\ IF destroyed
       THEN /\ result' = WithLlm(Raised(1 - result.n, "destroyed",
                                        "RuntimeError", <<>>), NotCalled)
            /\ pc' = "idle"
       ELSE \E thinking \in {"none", "found"} :
               IF thinking = "none"
               THEN /\ result' = WithLlm(
                                   Returned(1 - result.n, "no_thinking",
                                     _build_synthetic_signal(win, "clear", now),
                                     <<>>), NotCalled)
                    /\ pc' = "idle"
               ELSE /\ result' = result
                    /\ pc' = "await_llm"
    /\ UNCHANGED <<cfg, now, windowVars, driftVars, destroyed, nAnalysed,
                   llmFailed, resetRun, snapshot>>

\* AIPClient.check from the return of the analysis-LLM call to its end
\* (client.py lines 257-338)
CheckResume ==
    /\ pc = "await_llm"
    /\ \E http \in HttpOutcomes(GoodTexts \cup BadTexts), d \in Durations,
          cb \in CallbackBehaviours :
          LET r == CheckAfterThinking(1 - result.n, win, drift, http, d,
                                      nextId + 1, now, cb)
          IN  /\ win' = r.win
              /\ drift' = r.drift
              /\ result' = WithLlm(r.result, _call_analysis_llm(http))
              /\ nAnalysed' = IF r.result.path = "analysed"
                              THEN nAnalysed + 1 ELSE nAnalysed
              /\ llmFailed' = (llmFailed \/ r.result.path = "llm_failure")
              /\ nextId' = IF r.result.path = "analysed"
                           THEN nextId + 1 ELSE nextId
    /\ pc' = "idle"
    /\ UNCHANGED <<cfg, now, pushedCp, nPushed, tsMonotone, alert, runLen,
                   runAlerts, nCalls, nAlerts, driftCp, s3Step, destroyed,
                   resetRun, snapshot>>

\* AIPClient.reset_window; it does not look at _destroyed
ResetWindow ==
    /\ pc = "idle"
    /\ win' = reset_window(win, drift).win
    /\ drift' = reset_window(win, drift).drift
    /\ nAnalysed' = 0
    /\ runLen' = 0
    /\ runAlerts' = 0
    /\ resetRun' = runLen
    /\ snapshot' = Observed(snapshot, reset_window(win, drift).win)
    /\ UNCHANGED <<cfg, now, nextId, pushedCp, nPushed, tsMonotone, alert,
                   nCalls, nAlerts, driftCp, s3Step, pc, destroyed,
                   result, llmFailed>>

\* AIPClient.destroy
Destroy ==
    /\ pc = "idle"
    /\ ~destroyed
    /\ destroyed' = TRUE
    /\ UNCHANGED <<cfg, now, windowVars, driftVars, pc, result, nAnalysed,
                   llmFailed, resetRun, snapshot>>

Next == CheckCall \/ CheckResume \/ ResetWindow \/ Destroy

Spec == Init /\ [][Next]_vars

(***************************************************************************)
(* SpecSession: one AIPClient through a longer session of checks whose     *)
(* analysis succeeds, with reset_window and a caller that holds on to a    *)
(* WindowState it got from get_window_state                                *)
(***************************************************************************)
InitSession ==
    /\ cfg \in {c \in ClientConfigs :
                  /\ c.mode = "sliding"
                  /\ c.session_boundary = "reset"
                  /\ c.failure_mode = "fail_open"
                  /\ ~c.on_verdict}
    /\ InitCommon

\* the well-formed texts of a session: a clear and a non-clear verdict
SessionTexts == {x \in GoodTexts : x.verdict \in {"clear", "review_needed"}}

\* the analysis LLM answers 200 with a well-formed text, or the connection
\* to it fails
SessionHttp ==
    {h \in HttpOutcomes(SessionTexts) :
        \/ h.kind = "response" /\ h.status = 200 /\ Len(h.content) = 2
        \/ h.kind = "exception" /\ h.error = "ConnectError"}

\* prompt.original_tokens of the thinking blocks checked: the 5 tokens of
\* "Okay, let me help." (tests/sdk/test_client.py) and a block of 100 tokens
ThinkingTokens == {5, DEFAULT_MIN_EVIDENCE_TOKENS}

\* a check's outcome, with the token count of the thinking block it was for
WithTokens(res, k) ==
    [x \in DOMAIN res \cup {"tokens"} |-> IF x = "tokens" THEN k ELSE res[x]]

\* AIPClient.check as a whole (client.py lines 230-338), for a response body
\* with a thinking block; the caller awaits it before its next call
SessionCheck ==
    /\ pc = "idle"
    /\ ~destroyed
    /\ nextId < MaxSessionChecks
    /\ \E http \in SessionHttp, d \in Durations, cb \in CallbackBehaviours,
          tokens \in ThinkingTokens :
          LET r == CheckAfterThinking(1 - result.n, win, drift, http, d,
                                      nextId + 1, now, cb)
              analysed == r.result.path = "analysed"
              \* the verdict the analysis LLM gave, "none" when it gave none
              v == IF http.kind = "response" THEN http.content[2].text.verdict
                   ELSE "none"
              alerted == /\ r.result.kind = "signal"
                         /\ r.result.signal.window_summary.drift_alert_active
          IN  /\ win' = r.win
              /\ drift' = r.drift
              /\ result' = WithTokens(
                               WithLlm(r.result, _call_analysis_llm(http)),
                               tokens)
              /\ runLen' = IF v = "none" THEN runLen
                           ELSE IF v = "clear" THEN 0 ELSE runLen + 1
              /\ runAlerts' = IF v = "none" THEN runAlerts
                              ELSE IF v = "clear" THEN 0
                              ELSE runAlerts + (IF alerted THEN 1 ELSE 0)
              /\ nAlerts' = nAlerts + (IF alerted THEN 1 ELSE 0)
              /\ snapshot' = Observed(snapshot, r.win)
              /\ nAnalysed' = IF analysed THEN nAnalysed + 1 ELSE nAnalysed
              /\ nextId' = IF analysed THEN nextId + 1 ELSE nextId
              /\ llmFailed' = (llmFailed \/ r.result.path = "llm_failure")
    /\ UNCHANGED <<cfg, now, pushedCp, nPushed, tsMonotone, alert, nCalls,
                   driftCp, s3Step, pc, destroyed, resetRun>>

\* AIPClient.get_window_state: the caller keeps the object it returns
GetWindowState ==
    /\ pc = "idle"
    /\ ~snapshot.taken
    /\ LET g == get_state(win) IN
       snapshot' = [taken |-> TRUE, state |-> g.state, at |-> g.state,
                    shares_list |-> g.shares_list,
                    shares_stats |-> g.shares_stats, mutated |-> FALSE]
    /\ UNCHANGED <<cfg, now, windowVars, driftVars, pc, destroyed, result,
                   nAnalysed, llmFailed, resetRun>>

\* the caller writes to the object it holds: appends to or clears its list,
\* or overwrites a field of its stats; the write lands in the manager's
\* state where the object is shared
MutateSnapshot ==
    /\ snapshot.taken
    /\ ~snapshot.mutated
    /\ \E m \in {"append", "clear", "stats"} :
          LET cps == IF m = "append"
                     THEN Append(snapshot.state.checkpoints, NoCheckpoint)
                     ELSE IF m = "clear" THEN <<>>
                     ELSE snapshot.state.checkpoints
              st == IF m = "stats"
                    THEN [snapshot.state.stats EXCEPT !.total_checks = 99]
                    ELSE snapshot.state.stats
          IN  /\ snapshot' = [snapshot EXCEPT !.state.checkpoints = cps,
                                              !.state.stats = st,
                                              !.mutated = TRUE]
              /\ win' = [win EXCEPT
                            !.checkpoints = IF snapshot.shares_list THEN cps
                                            ELSE @,
                            !.stats = IF snapshot.shares_stats THEN st ELSE @]
    /\ UNCHANGED <<cfg, now, nextId, pushedCp, nPushed, tsMonotone, driftVars,
                   pc, destroyed, result, nAnalysed, llmFailed, resetRun>>

NextSession == SessionCheck \/ ResetWindow \/ GetWindowState \/ MutateSnapshot

SpecSession == InitSession /\ [][NextSession]_vars

(***************************************************************************)
(* SpecStreak: one AIPClient, with or without callbacks, in either window  *)
(* mode, through a streak of checks while the clock moves; the callbacks   *)
(* may raise, the analysis LLM may fail or answer with a text that         *)
(* check_integrity rejects                                                 *)
(***************************************************************************)
InitStreak ==
    /\ cfg \in {c \in ClientConfigs : /\ c.failure_mode = "fail_open"
                                      /\ c.session_boundary = "reset"}
    /\ InitCommon

\* what the POST to the analysis LLM meets: a well-formed clear or
\* review_needed text, a text with invalid JSON, or a failed connection
StreakHttp ==
    {h \in HttpOutcomes(SessionTexts
                        \cup {AnalysisText(FALSE, "clear", TRUE, <<>>,
                                           TRUE, TRUE)}) :
        \/ h.kind = "response" /\ h.status = 200 /\ Len(h.content) = 2
        \/ h.kind = "exception" /\ h.error = "ConnectError"}

\* the number of times the callback was invoked
Invocations(calls, callback) ==
    Cardinality({i \in 1..Len(calls) : calls[i].callback = callback})

\* AIPClient.check as a whole (client.py lines 230-338), for a response body
\* with a thinking block; the caller awaits it before its next call.
\* History: alert is the last alert the detector produced, nCalls the number
\* of on_drift_alert invocations, runLen the non-clear analysed checks since
\* the last clear one or reset_window.
StreakCheck ==
    /\ pc = "idle"
    /\ ~destroyed
    /\ nextId < MaxStreakChecks
    /\ \E http \in StreakHttp, d \in Durations, cb \in CallbackBehaviours :
          \E r \in {CheckAfterThinking(1 - result.n, win, drift, http, d,
                                       nextId + 1, now, cb)} :
          LET analysed == r.result.path = "analysed"
              cp == r.win.checkpoints[Len(r.win.checkpoints)]
              clear == analysed /\ cp.verdict = "clear"
          IN
          \E produced \in {IF analysed
                           THEN detect_integrity_drift(
                                    drift, cp, r.win.checkpoints,
                                    NoThreshold)[2]
                           ELSE NoAlert} :
              /\ win' = r.win
              /\ drift' = r.drift
              /\ result' = WithLlm(r.result, _call_analysis_llm(http))
              /\ alert' = IF produced # NoAlert THEN produced ELSE alert
              /\ nAlerts' = nAlerts + (IF produced # NoAlert THEN 1 ELSE 0)
              /\ nCalls' = nCalls + Invocations(r.result.calls,
                                                "on_drift_alert")
              /\ runLen' = IF ~analysed THEN runLen
                           ELSE IF clear THEN 0 ELSE runLen + 1
              /\ runAlerts' = IF clear THEN 0
                              ELSE runAlerts
                                   + (IF produced # NoAlert THEN 1 ELSE 0)
              /\ nAnalysed' = IF analysed THEN nAnalysed + 1 ELSE nAnalysed
              /\ nextId' = IF analysed THEN nextId + 1 ELSE nextId
              /\ llmFailed' = (llmFailed \/ r.result.path = "llm_failure")
    /\ UNCHANGED <<cfg, now, pushedCp, nPushed, tsMonotone, driftCp, s3Step,
                   pc, destroyed, resetRun, snapshot>>

NextStreak == StreakCheck \/ ResetWindow \/ Tick

SpecStreak == InitStreak /\ [][NextStreak]_vars

(***************************************************************************)
(* SpecOverlap: two check coroutines of one client on one event loop.      *)
(* A coroutine runs until it awaits: check suspends at the analysis-LLM    *)
(* call (client.py line 260) and nowhere before its commit.  No callback   *)
(* is configured, so nothing is awaited after the commit either.           *)
(* pc gives each task's position with the locals it holds across the       *)
(* await.                                                                  *)
(***************************************************************************)
Tasks == {1, 2}

\* a task outside check: whether its last check was suspended together with
\* the other task's, and the id of the checkpoint it pushed (0 if none)
Idle(overlapped, committed) ==
    [at |-> "idle", overlapped |-> overlapped, committed |-> committed]

\* a task suspended at the analysis-LLM call: prompt was built from the
\* window's checkpoints as they were at the call (client.py lines 247-255)
Suspended(window_context, overlapped) ==
    [at |-> "await_llm", window_context |-> window_context,
     overlapped |-> overlapped]

InitOverlap ==
    /\ cfg \in {c \in ClientConfigs : /\ c.failure_mode = "fail_open"
                                      /\ c.session_boundary = "reset"
                                      /\ ~c.on_verdict}
    /\ now = 0
    /\ win = create_window_state("A")
    /\ nextId = 0
    /\ pushedCp = NoCheckpoint
    /\ nPushed = 0
    /\ tsMonotone = TRUE
    /\ drift = create_drift_state
    /\ alert = NoAlert
    /\ runLen = 0
    /\ runAlerts = 0
    /\ nCalls = 0
    /\ nAlerts = 0
    /\ driftCp = NoCheckpoint
    /\ s3Step = 0
    /\ pc = [t \in Tasks |-> Idle(FALSE, 0)]
    /\ destroyed = FALSE
    /\ result = [n |-> 0, kind |-> "none", llm |-> NotCalled]
    /\ nAnalysed = 0
    /\ llmFailed = FALSE
    /\ resetRun = 0
    /\ snapshot = NoSnapshot

InFlight == {t \in Tasks : pc[t].at = "await_llm"}

\* AIPClient.check up to its suspension (client.py lines 230-260)
OverlapCall(t) ==
    /\ pc[t].at = "idle"
    /\ nextId + Cardinality(InFlight) < MaxOverlapChecks
    /\ \E thinking \in {"none", "found"} :
          IF thinking = "none"
          THEN /\ result' = WithLlm(
                              Returned(1 - result.n, "no_thinking",
                                _build_synthetic_signal(win, "clear", now),
                                <<>>), NotCalled)
               /\ pc' = [pc EXCEPT ![t] = Idle(FALSE, 0)]
          ELSE /\ result' = result
               /\ pc' = [u \in Tasks |->
                           IF u = t
                           THEN Suspended(win.checkpoints, InFlight # {})
                           ELSE IF pc[u].at = "await_llm"
                           THEN [pc[u] EXCEPT !.overlapped = TRUE]
                           ELSE pc[u]]
    /\ UNCHANGED <<cfg, now, windowVars, driftVars, destroyed, nAnalysed,
                   llmFailed, resetRun, snapshot>>

\* what a resumed check works on: self._window and self._drift_state as
\* they are when it resumes (client.py lines 283-320)
ResumesOnCapturedWindow(local) ==
    [win |-> [win EXCEPT !.checkpoints = local.window_context,
                         !.size = Len(local.window_context)],
     drift |-> drift]

ResumesOn(local) == [win |-> win, drift |-> drift]

\* AIPClient.check from the return of the analysis-LLM call to its end
\* (client.py lines 257-338), one step of the event loop
OverlapResume(t) ==
    /\ pc[t].at = "await_llm"
    /\ \E http \in StreakHttp, d \in Durations, cb \in CallbackBehaviours,
          self \in {ResumesOn(pc[t])} :
          \E r \in {CheckAfterThinking(1 - result.n, self.win, self.drift,
                                       http, d, nextId + 1, now, cb)} :
          LET analysed == r.result.path = "analysed"
              cp == r.win.checkpoints[Len(r.win.checkpoints)]
              clear == analysed /\ cp.verdict = "clear"
          IN
          \E produced \in {IF analysed
                           THEN detect_integrity_drift(self.drift, cp,
                                   r.win.checkpoints, NoThreshold)[2]
                           ELSE NoAlert} :
              /\ win' = r.win
              /\ drift' = r.drift
              /\ result' = WithLlm(r.result, _call_analysis_llm(http))
              /\ alert' = IF produced # NoAlert THEN produced ELSE alert
              /\ nAlerts' = nAlerts + (IF produced # NoAlert THEN 1 ELSE 0)
              /\ nCalls' = nCalls + Invocations(r.result.calls, "on_drift_alert")
              /\ runLen' = IF ~analysed THEN runLen
                           ELSE IF clear THEN 0 ELSE runLen + 1
              /\ runAlerts' = IF clear THEN 0
                              ELSE runAlerts + (IF produced # NoAlert THEN 1 ELSE 0)
              /\ nAnalysed' = IF analysed THEN nAnalysed + 1 ELSE nAnalysed
              /\ nextId' = IF analysed THEN nextId + 1 ELSE nextId
              /\ llmFailed' = (llmFailed \/ r.result.path = "llm_failure")
              /\ pc' = [pc EXCEPT ![t] =
                          Idle(pc[t].overlapped,
                               IF analysed THEN nextId + 1 ELSE 0)]
    /\ UNCHANGED <<cfg, now, pushedCp, nPushed, tsMonotone, driftCp, s3Step,
                   destroyed, resetRun, snapshot>>

\* AIPClient.reset_window, called between two steps of the event loop
OverlapReset ==
    /\ win' = reset_window(win, drift).win
    /\ drift' = reset_window(win, drift).drift
    /\ nAnalysed' = 0
    /\ runLen' = 0
    /\ runAlerts' = 0
    /\ resetRun' = runLen
    /\ UNCHANGED <<cfg, now, nextId, pushedCp, nPushed, tsMonotone, alert,
                   nCalls, nAlerts, driftCp, s3Step, pc, destroyed,
                   result, llmFailed, snapshot>>

NextOverlap ==
    \/ \E t \in Tasks : OverlapCall(t)
    \/ \E t \in Tasks : OverlapResume(t)
    \/ OverlapReset

SpecOverlap == InitOverlap /\ [][NextOverlap]_vars

(***************************************************************************)
(* Properties of the window (SpecWindow)                                   *)
(***************************************************************************)
\* a step of WindowManager.push
IsPushStep == nPushed' = nPushed + 1

\* the ids of the window's checkpoints, in window order
WindowIds == [i \in 1..Len(win.checkpoints) |-> win.checkpoints[i].checkpoint_id]

\* the window is the last Len(window) pushes, in push order: push number n
\* carries checkpoint id n
IsSuffixOfPushes ==
    \A i \in 1..Len(win.checkpoints) :
        win.checkpoints[i].checkpoint_id = nPushed - Len(win.checkpoints) + i

\* the window is a subsequence of the pushes, in push order
IsSubsequenceOfPushes ==
    /\ \A i \in 1..Len(win.checkpoints) :
          win.checkpoints[i].checkpoint_id \in 1..nPushed
    /\ \A i, j \in 1..Len(win.checkpoints) :
          i < j => win.checkpoints[i].checkpoint_id
                      < win.checkpoints[j].checkpoint_id

\* C1: after any sequence of push and reset calls, in either mode and with
\* either session boundary, size equals the number of checkpoints held and
\* does not exceed max_size.
C1_WindowBound ==
    /\ win.size = Len(win.checkpoints)
    /\ win.size <= cfg.max_size

\* C1 witness: more pushes than max_size were made and the window is full
C1_Witness ==
    /\ nPushed > cfg.max_size
    /\ win.size = cfg.max_size
    /\ pushedCp.checkpoint_id = nPushed

\* C7 as stated: in sliding mode the window is always a contiguous suffix of
\* the sequence of checkpoints pushed so far.
C7_Original == cfg.mode = "sliding" => IsSuffixOfPushes

\* C7 amended: in sliding mode the window is a subsequence of the pushes in
\* push order, and it is a contiguous suffix of them whenever the pushed
\* timestamps were non-decreasing in push order.
C7_SlidingSuffix ==
    cfg.mode = "sliding" =>
        /\ IsSubsequenceOfPushes
        /\ tsMonotone => IsSuffixOfPushes

\* C7 witness: sliding mode, ordered timestamps, the oldest push was evicted
\* from a full window
C7_Witness ==
    /\ cfg.mode = "sliding"
    /\ tsMonotone
    /\ nPushed > cfg.max_size
    /\ Len(win.checkpoints) = cfg.max_size
    /\ win.checkpoints[1].checkpoint_id = nPushed - cfg.max_size + 1

\* C8 as stated: in fixed mode a push that finds max_size checkpoints in the
\* window leaves exactly the pushed checkpoint, and total_checks counts it
\* (stated here for the pushes that stay in the current session).
C8_Original ==
    [][(/\ IsPushStep
        /\ cfg.mode = "fixed"
        /\ pushedCp'.session_id = win.session_id
        /\ Len(win.checkpoints) >= cfg.max_size)
       => /\ win'.checkpoints = <<pushedCp'>>
          /\ win'.size = 1
          /\ win'.stats.total_checks = win.stats.total_checks + 1]_vars

\* C8 amended: in fixed mode a push that still finds max_size checkpoints
\* after the session-boundary step and after the stale checkpoints were
\* dropped clears the list, so the window then holds exactly the pushed
\* checkpoint, and total_checks is one more than before the push.
C8_FixedEviction ==
    [][(/\ IsPushStep
        /\ cfg.mode = "fixed"
        /\ Len(_evict_stale(SessionBoundary(win, pushedCp').checkpoints, now))
              >= cfg.max_size)
       => /\ win'.checkpoints = <<pushedCp'>>
          /\ win'.size = 1
          /\ win'.stats.total_checks = win.stats.total_checks + 1]_vars

\* C8 witness: fixed mode, no checkpoint can be stale (the clock is at 0),
\* push number max_size + 1 left only itself and total_checks counts all
C8_Witness ==
    /\ cfg.mode = "fixed"
    /\ now = 0
    /\ nPushed = cfg.max_size + 1
    /\ win.checkpoints = <<pushedCp>>
    /\ win.stats.total_checks = nPushed

\* C9 as stated: a push with a new session id adopts it; under reset the
\* window then holds only the new checkpoint (size 1, total_checks 1), under
\* carry all previous checkpoints are retained and the new one is appended.
C9_Original ==
    [][(IsPushStep /\ pushedCp'.session_id # win.session_id)
       => /\ win'.session_id = pushedCp'.session_id
          /\ cfg.session_boundary = "reset" =>
                /\ win'.checkpoints = <<pushedCp'>>
                /\ win'.size = 1
                /\ win'.stats.total_checks = 1
          /\ cfg.session_boundary = "carry" =>
                win'.checkpoints = Append(win.checkpoints, pushedCp')]_vars

\* C9 amended: as stated for reset; under carry the boundary itself drops
\* nothing: the previous checkpoints stay subject only to the age and size
\* eviction of any push (all are retained when none is stale and the window
\* is not full), the new one is appended and total_checks goes up by one.
C9_SessionBoundary ==
    [][(IsPushStep /\ pushedCp'.session_id # win.session_id)
       => /\ win'.session_id = pushedCp'.session_id
          /\ cfg.session_boundary = "reset" =>
                /\ win'.checkpoints = <<pushedCp'>>
                /\ win'.size = 1
                /\ win'.stats.total_checks = 1
          /\ cfg.session_boundary = "carry" =>
                /\ win'.checkpoints =
                      Append(EvictOnFull(_evict_stale(win.checkpoints, now)),
                             pushedCp')
                /\ win'.stats.total_checks = win.stats.total_checks + 1
                /\ (/\ Len(win.checkpoints) < cfg.max_size
                    /\ \A i \in 1..Len(win.checkpoints) :
                          now - win.checkpoints[i].timestamp
                             <= cfg.max_age_seconds)
                   => win'.checkpoints = Append(win.checkpoints, pushedCp')]_vars

\* C9 witness: under carry, a checkpoint of session B sits behind two
\* checkpoints of session A and the window has adopted B
C9_Witness ==
    /\ cfg.session_boundary = "carry"
    /\ win.session_id = "B"
    /\ Len(win.checkpoints) = 3
    /\ win.checkpoints[1].session_id = "A"
    /\ win.checkpoints[2].session_id = "A"
    /\ win.checkpoints[3] = pushedCp
    /\ pushedCp.session_id = "B"

\* C10 as stated: every checkpoint in the window carries the window's
\* current session id.
C10_Original ==
    \A i \in 1..Len(win.checkpoints) :
        win.checkpoints[i].session_id = win.session_id

\* C10 amended: under session_boundary = reset every checkpoint in the
\* window carries the window's current session id (under carry, checkpoints
\* of earlier sessions stay in the window).
C10_SessionInvariant ==
    cfg.session_boundary = "reset" =>
        \A i \in 1..Len(win.checkpoints) :
            win.checkpoints[i].session_id = win.session_id

\* C10 witness: under reset the session changed and two checkpoints of the
\* new session are held
C10_Witness ==
    /\ cfg.session_boundary = "reset"
    /\ win.session_id = "B"
    /\ win.size = 2
    /\ win.stats.total_checks = 2
    /\ nPushed > 2

\* a step of WindowManager.reset: no push and the clock stands
IsResetStep == nPushed' = nPushed /\ now' = now

\* C17: WindowManager.reset empties the checkpoints, sets size, total_checks
\* and the three verdict counts to 0 and avg_analysis_ms to 0, and leaves
\* the current session_id and the configuration unchanged.
C17_ResetFrame ==
    [][IsResetStep =>
        /\ win' = [checkpoints |-> <<>>, size |-> 0,
                   session_id |-> win.session_id,
                   stats |-> [total_checks |-> 0, clear_count |-> 0,
                              review_count |-> 0, violation_count |-> 0,
                              avg_analysis_ms |-> <<0, 1>>]]
        /\ cfg' = cfg]_vars

\* C17 witness: the window went over to session B by pushes and was reset
\* after them: it is empty with zero stats and is still in session B
C17_Witness ==
    /\ nPushed >= 2
    /\ pushedCp.session_id = "B"
    /\ win.session_id = "B"
    /\ win.checkpoints = <<>>
    /\ win.stats.total_checks = 0
    /\ win.stats.clear_count = 0

\* the push of this step crosses a session boundary in reset mode
IsResettingPush ==
    /\ IsPushStep
    /\ pushedCp'.session_id # win.session_id
    /\ cfg.session_boundary = "reset"

\* C19: every push, evicting or not, adds exactly one to total_checks (to
\* the 0 left by the reset when the push crosses a session boundary in reset
\* mode); total_checks decreases only through reset, explicit or triggered
\* by such a push; and total_checks >= size in every state.
C19_TotalChecks ==
    [][/\ IsPushStep =>
            win'.stats.total_checks =
                IF IsResettingPush THEN 1 ELSE win.stats.total_checks + 1
       /\ win'.stats.total_checks < win.stats.total_checks =>
            (IsResetStep \/ IsResettingPush)
       /\ win.stats.total_checks >= win.size
       /\ win'.stats.total_checks >= win'.size]_vars

\* C19 witness: four pushes into a window of three, the fourth evicted, and
\* total_checks counts all four
C19_Witness ==
    /\ nPushed = 4
    /\ win.stats.total_checks = 4
    /\ win.size < 4
    /\ win.checkpoints[win.size] = pushedCp

\* the number of window checkpoints with verdict v, counted directly
NumberWithVerdict(v) ==
    Cardinality({i \in DOMAIN win.checkpoints : win.checkpoints[i].verdict = v})

\* C20: in every reachable window state get_summary returns verdict counts
\* equal to the number of window checkpoints with each verdict, summing to
\* size; integrity_ratio = clear count / size when size > 0 and 1 when the
\* window is empty; max_size as configured; drift_alert_active = false.
C20_Summary ==
    LET sum == get_summary(win) IN
    /\ sum.size = win.size
    /\ sum.max_size = cfg.max_size
    /\ sum.verdicts.clear = NumberWithVerdict("clear")
    /\ sum.verdicts.review_needed = NumberWithVerdict("review_needed")
    /\ sum.verdicts.boundary_violation = NumberWithVerdict("boundary_violation")
    /\ sum.verdicts.clear + sum.verdicts.review_needed
          + sum.verdicts.boundary_violation = win.size
    /\ win.size > 0 =>
          /\ sum.integrity_ratio[2] > 0
          /\ sum.integrity_ratio[1] * win.size
                = NumberWithVerdict("clear") * sum.integrity_ratio[2]
    /\ win.size = 0 => sum.integrity_ratio = <<1, 1>>
    /\ sum.drift_alert_active = FALSE

\* C20 witness: a window of three with one clear checkpoint after an
\* eviction, summarised with integrity_ratio 1/3
C20_Witness ==
    /\ nPushed > cfg.max_size
    /\ win.size = 3
    /\ get_summary(win).verdicts.clear = 1
    /\ get_summary(win).verdicts.review_needed = 2
    /\ get_summary(win).integrity_ratio = <<1, 3>>

(***************************************************************************)
(* Properties of the drift detector (SpecDrift)                            *)
(***************************************************************************)
EffectiveThreshold ==
    IF cfg.threshold # NoThreshold THEN cfg.threshold[1]
    ELSE DEFAULT_SUSTAINED_CHECKS_THRESHOLD

\* C2: threading the returned state with a fixed threshold, at most one
\* alert is emitted within a contiguous run of non-clear verdicts, and every
\* run that reaches the threshold, also one that starts after a clear
\* verdict, has emitted its alert.
C2_DriftAtMostOnce ==
    /\ runAlerts <= 1
    /\ runLen >= EffectiveThreshold => runAlerts = 1
    /\ runLen < EffectiveThreshold => runAlerts = 0

\* C2 witness: a second run, started after a clear verdict, went past the
\* threshold and emitted the second alert of the sequence
C2_Witness ==
    /\ runLen > EffectiveThreshold
    /\ runAlerts = 1
    /\ nAlerts = 2
    /\ alert = NoAlert

\* a step of detect_integrity_drift
IsDriftCall == nCalls' = nCalls + 1

\* C11: with threshold T (default 3) a call emits an alert if and only if
\* its verdict is non-clear and it is the T-th consecutive non-clear verdict
\* since the last clear verdict or restart; the alert has sustained_checks =
\* T and carries the ids of the T checkpoints of that streak in order (call
\* number n carries id n).  For the verdicts of S3 under the default
\* threshold no alert is emitted on the first five calls and exactly one on
\* the sixth.
C11_AlertAtThreshold ==
    [][IsDriftCall =>
        /\ (alert' # NoAlert) <=>
              (driftCp'.verdict # "clear" /\ runLen' = EffectiveThreshold)
        /\ alert' # NoAlert =>
              /\ alert'.sustained_checks = EffectiveThreshold
              /\ alert'.checkpoint_ids =
                    [i \in 1..EffectiveThreshold |->
                        nCalls' - EffectiveThreshold + i]
        /\ (cfg.threshold = NoThreshold /\ s3Step' \in 1..5) => nAlerts' = 0
        /\ (cfg.threshold = NoThreshold /\ s3Step' = 6) =>
              (nAlerts' = 1 /\ alert' # NoAlert)]_vars

\* C11 witness: the six calls of S3 under the default threshold, the alert
\* emitted by the sixth with the ids of calls 4, 5 and 6
C11_Witness ==
    /\ cfg.threshold = NoThreshold
    /\ s3Step = 6
    /\ nCalls = 6
    /\ nAlerts = 1
    /\ alert # NoAlert
    /\ alert.sustained_checks = 3
    /\ alert.checkpoint_ids = <<4, 5, 6>>

\* C12: a call with a clear verdict yields, in one step and whatever the
\* state before, the state with sustained_nonclear = 0, alert_fired = false
\* and empty streak_checkpoint_ids and streak_categories, and no alert.
C12_ResetOnClear ==
    [][(IsDriftCall /\ driftCp'.verdict = "clear") =>
        /\ drift'.sustained_nonclear = 0
        /\ drift'.alert_fired = FALSE
        /\ drift'.streak_checkpoint_ids = <<>>
        /\ drift'.streak_categories = <<>>
        /\ alert' = NoAlert]_vars

\* C12 witness: a clear verdict arrived after a streak that had emitted its
\* alert and collected categories, and the state is the fresh one
C12_Witness ==
    /\ nCalls > EffectiveThreshold
    /\ driftCp.checkpoint_id = nCalls
    /\ driftCp.verdict = "clear"
    /\ nAlerts = 1
    /\ runLen = 0
    /\ drift = create_drift_state
    /\ alert = NoAlert

(***************************************************************************)
(* Properties of the client (Spec)                                         *)
(***************************************************************************)
\* a step in which a check returns or raises
CheckCompletes == result'.n # result.n

\* the completed check's analysis-LLM call failed
LlmFailed(res) == res.llm # NotCalled /\ res.llm.raised

\* the completed check's analysis-LLM call gave a text check_integrity rejects
LlmTextRejected(res) ==
    /\ res.llm # NotCalled
    /\ ~res.llm.raised
    /\ res.llm.text \in BadTexts

\* the completed check's analysis-LLM call gave a well-formed text
LlmTextAccepted(res) ==
    /\ res.llm # NotCalled
    /\ ~res.llm.raised
    /\ res.llm.text \in GoodTexts

\* the signal is synthetic
IsSynthetic(signal) == signal.checkpoint.thinking_block_hash = "none"

IsSyntheticWith(signal, verdict, proceed, action) ==
    /\ IsSynthetic(signal)
    /\ signal.checkpoint.verdict = verdict
    /\ signal.proceed = proceed
    /\ signal.recommended_action = action

\* on_error was invoked exactly once, with the error of the analysis-LLM
\* call, if it is configured, and no other callback was
OnErrorInvokedOnce(res) ==
    res.calls = IF cfg.on_error
                THEN <<[callback |-> "on_error", arg |-> res.llm.error]>>
                ELSE <<>>

\* C3: a check that ends in a synthetic signal (no thinking block, or a
\* failed analysis-LLM call under either failure mode) leaves the window
\* (checkpoints, size, stats with total_checks) and the drift state as they
\* were; and the checks without a thinking block or with a failed
\* analysis-LLM call return no other kind of signal.
C3_SyntheticLeavesState ==
    [][CheckCompletes =>
        /\ (result'.kind = "signal" /\ IsSynthetic(result'.signal))
              => (win' = win /\ drift' = drift)
        /\ (result'.kind = "signal" /\ (result'.llm = NotCalled
                                         \/ LlmFailed(result')))
              => IsSynthetic(result'.signal)]_vars

\* C3 witness: a failed analysis-LLM call ended in a synthetic signal while
\* the window held two checkpoints and the drift streak was two long
C3_Witness ==
    /\ result.kind = "signal"
    /\ LlmFailed(result)
    /\ IsSynthetic(result.signal)
    /\ win.size = 2
    /\ win.stats.total_checks = 2
    /\ drift.sustained_nonclear = 2

OnlyAnalysedChecksPush ==
    /\ LlmTextAccepted(result') =>
          /\ win'.stats.total_checks = win.stats.total_checks + 1
          /\ win'.checkpoints[Len(win'.checkpoints)].verdict
                = result'.llm.text.verdict
          /\ win'.checkpoints[Len(win'.checkpoints)].checkpoint_id = nextId'
          /\ nextId' = nextId + 1
          /\ result'.kind = "signal" =>
                /\ ~IsSynthetic(result'.signal)
                /\ result'.signal.checkpoint
                      = win'.checkpoints[Len(win'.checkpoints)]
    /\ ~LlmTextAccepted(result') => win' = win

C6_RejectedTextHandled ==
    [][(CheckCompletes /\ LlmTextRejected(result'))
       => /\ result'.kind = "signal"
          /\ cfg.on_error =>
                result'.calls = <<[callback |-> "on_error",
                                   arg |-> "ValueError"]>>
          /\ IF cfg.failure_mode = "fail_closed"
             THEN IsSyntheticWith(result'.signal, "boundary_violation", FALSE,
                                  "deny_and_escalate")
             ELSE IsSyntheticWith(result'.signal, "clear", TRUE,
                                  "continue")]_vars

\* the callbacks of an analysed check when both are configured: on_verdict,
\* then on_drift_alert if withAlert
VerdictThenAlert(withAlert) ==
    <<[callback |-> "on_verdict", arg |-> "signal"]>>
    \o (IF withAlert THEN <<[callback |-> "on_drift_alert", arg |-> "alert"]>>
        ELSE <<>>)

\* the check completing in this step produced a drift alert: the drift
\* state's alert_fired went from false to true
ProducedAlert == drift'.alert_fired /\ ~drift.alert_fired

\* a check in flight has invoked no callback yet: callbacks are recorded only
\* in the step that completes their check, and a check starts only when no
\* other is in flight
CallbacksWithinOneCheck ==
    /\ pc' = "await_llm" => (pc = "idle" /\ result' = result)
    /\ CheckCompletes => pc' = "idle"

C14_Destroyed ==
    [][/\ destroyed => destroyed'
       /\ (destroyed /\ pc = "idle") => pc' = "idle"
       /\ (destroyed /\ pc = "idle" /\ CheckCompletes)
          => /\ result'.kind = "raise"
             /\ result'.error = "RuntimeError"
             /\ result'.llm = NotCalled
             /\ result'.calls = <<>>
             /\ win' = win
             /\ drift' = drift]_vars

\* C14 witness: a check on a destroyed client raised while the window held
\* two checkpoints and the drift streak was two long
C14_Witness ==
    /\ destroyed
    /\ result.kind = "raise"
    /\ result.path = "destroyed"
    /\ win.size = 2
    /\ drift.sustained_nonclear = 2

(***************************************************************************)
(* Properties of the engine (SpecEngine)                                   *)
(***************************************************************************)
\* C15: for every verdict and every list of concerns build_signal yields
\* clear -> (continue, proceed true); review_needed -> (log_and_continue,
\* proceed true); boundary_violation with at least one critical concern ->
\* (deny_and_escalate, proceed false); boundary_violation with no critical
\* concern, also with no concern at all -> (pause_for_review, proceed false).
C15_VerdictTable ==
    (result.kind = "signal" /\ result.path = "build_signal") =>
        LET sig == result.signal
            v == sig.checkpoint.verdict
            cs == sig.checkpoint.concerns
            critical == {i \in 1..Len(cs) : cs[i].severity = "critical"}
            row == <<sig.recommended_action, sig.proceed>>
        IN  /\ v = "clear" => row = <<"continue", TRUE>>
            /\ v = "review_needed" => row = <<"log_and_continue", TRUE>>
            /\ (v = "boundary_violation" /\ critical # {})
                  => row = <<"deny_and_escalate", FALSE>>
            /\ (v = "boundary_violation" /\ critical = {})
                  => row = <<"pause_for_review", FALSE>>

\* C15 witness: a boundary_violation whose two concerns are high and low
\* was mapped to pause_for_review with proceed false
C15_Witness ==
    /\ result.kind = "signal"
    /\ result.path = "build_signal"
    /\ result.signal.checkpoint.verdict = "boundary_violation"
    /\ Len(result.signal.checkpoint.concerns) = 2
    /\ result.signal.checkpoint.concerns[1].severity = "high"
    /\ result.signal.checkpoint.concerns[2].severity = "low"
    /\ result.signal.recommended_action = "pause_for_review"
    /\ ~result.signal.proceed

(***************************************************************************)
(* Properties of a client session (SpecSession)                            *)
(***************************************************************************)
\* a step of reset_window: no check completed and no WindowState object was
\* taken or written to
IsResetWindowStep ==
    /\ result' = result
    /\ nextId' = nextId
    /\ snapshot' = snapshot

C18_SnapshotIsolation ==
    [][/\ (snapshot'.taken /\ ~snapshot'.mutated)
            => snapshot'.state = snapshot'.at
       /\ (snapshot.taken /\ snapshot'.mutated /\ ~snapshot.mutated)
            => win' = win]_vars

\* C18 witness: a WindowState taken with two checkpoints still shows them
\* after two more checks and a reset_window emptied the client's window
C18_Witness ==
    /\ snapshot.taken
    /\ ~snapshot.mutated
    /\ snapshot.state.size = 2
    /\ Len(snapshot.state.checkpoints) = 2
    /\ snapshot.state.stats.total_checks = 2
    /\ nextId = 4
    /\ win.size = 0
    /\ win.stats.total_checks = 0

\* C21: a check whose thinking block has fewer tokens than
\* min_evidence_tokens (default 100) returns a synthetic clear signal
\* without calling the analysis LLM and without pushing to the window; a
\* block at or above the threshold goes to the analysis LLM.
C21_MinEvidence ==
    [][CheckCompletes =>
        IF result'.tokens < DEFAULT_MIN_EVIDENCE_TOKENS
        THEN /\ result'.kind = "signal"
             /\ IsSyntheticWith(result'.signal, "clear", TRUE, "continue")
             /\ result'.llm = NotCalled
             /\ win' = win
        ELSE result'.llm # NotCalled]_vars

\* C22: the signal's window_summary.drift_alert_active is true if and only
\* if the drift detector produced an alert in that same check; it is false
\* on later non-clear checks of the same streak and on every synthetic
\* signal.
C22_DriftAlertActive ==
    [][(CheckCompletes /\ result'.kind = "signal") =>
        /\ result'.signal.window_summary.drift_alert_active <=> ProducedAlert
        /\ IsSynthetic(result'.signal) =>
              ~result'.signal.window_summary.drift_alert_active
        /\ (drift.alert_fired /\ drift'.alert_fired) =>
              ~result'.signal.window_summary.drift_alert_active]_vars

\* C22 witness: the fourth non-clear check of a streak, one past the alert,
\* returned a signal with drift_alert_active false
C22_Witness ==
    /\ runLen = 4
    /\ nAlerts = 1
    /\ drift.alert_fired
    /\ result.kind = "signal"
    /\ result.path = "analysed"
    /\ result.signal.checkpoint.verdict # "clear"
    /\ ~result.signal.window_summary.drift_alert_active

(***************************************************************************)
(* Properties of the Anthropic SSE accumulation (SpecStream)               *)
(***************************************************************************)
\* line k announces index i as a thinking block
Announces(lines, k, i) ==
    /\ lines[k].type = "content_block_start"
    /\ lines[k].index = i
    /\ lines[k].block_type = "thinking"

\* the thinking_delta texts for index i that arrive after its (latest)
\* announcement, in arrival order
RECURSIVE DeltasFrom(_, _, _)
DeltasFrom(lines, k, i) ==
    IF k > Len(lines) THEN <<>>
    ELSE (IF /\ lines[k].type = "content_block_delta"
             /\ lines[k].index = i
             /\ lines[k].delta_type = "thinking_delta"
          THEN lines[k].text ELSE <<>>) \o DeltasFrom(lines, k + 1, i)

AccumulatedText(lines, i) ==
    LET announcements == {k \in 1..Len(lines) : Announces(lines, k, i)}
    IN  IF announcements = {} THEN <<>>
        ELSE DeltasFrom(lines,
                        1 + CHOOSE k \in announcements :
                                \A j \in announcements : j <= k,
                        i)

\* C30: with the lines of the stream processed in order, thinking_delta
\* text counts only for an index announced earlier by a content_block_start
\* of type thinking; the content is the non-empty per-index texts joined
\* in ascending index order, whatever the order of arrival; the model is
\* that of the last message_start; and the result is none when no index
\* has any text.
C30_SseAccumulation ==
    IsApplied("extract_thinking_from_stream") =>
        LET lines == result.input
            out == result.output.returns
            text0 == AccumulatedText(lines, 0)
            text1 == AccumulatedText(lines, 1)
            starts == SelectSeq(lines, LAMBDA l : l.type = "message_start")
        IN  /\ out.found <=> (text0 # <<>> \/ text1 # <<>>)
            /\ out.found =>
                  /\ out.content =
                        IF text1 = <<>> THEN text0
                        ELSE IF text0 = <<>> THEN text1
                        ELSE text0 \o BlockSeparator \o text1
                  /\ out.model = IF starts = <<>> THEN "unknown"
                                 ELSE starts[Len(starts)].model

\* index 1 was announced and filled before index 0: the content still has
\* the text of index 0 first
C30_Witness ==
    /\ IsApplied("extract_thinking_from_stream")
    /\ result.input = <<ContentBlockStart(1, "thinking"),
                        ContentBlockDelta(1, "thinking_delta", <<"b">>),
                        ContentBlockStart(0, "thinking"),
                        ContentBlockDelta(0, "thinking_delta", <<"a">>)>>
    /\ result.output.returns.content = <<"a">> \o BlockSeparator \o <<"b">>

(***************************************************************************)
(* The checkpoint's window position (SpecSession)                          *)
(***************************************************************************)
\* C29: for every analysed check, the checkpoint's window_position.index is
\* the index (from 0) the checkpoint has in the window right after it is
\* pushed, and window_position.window_size is the window's size right after
\* the push.
C29_WindowPosition ==
    [][(CheckCompletes /\ result'.kind = "signal"
        /\ result'.path = "analysed") =>
          LET cp == result'.signal.checkpoint
              position == cp.window_position
          IN  /\ position.index + 1 \in 1..Len(win'.checkpoints)
              /\ win'.checkpoints[position.index + 1] = cp
              /\ position.window_size = win'.size]_vars

(***************************************************************************)
(* Properties of create_client (SpecCreate)                                *)
(***************************************************************************)
\* text contains needle, case-insensitively
ContainsNoCase(text, needle) == IsSubstring(lower(needle), lower(text))

\* some BOUNDARY value's content contains a negation marker and a bounded
\* action name, as written or with underscores replaced by spaces
HasConflict(config) ==
    \E i \in 1..Len(config.conscience_values) :
        LET value == config.conscience_values[i] IN
        /\ value.type = "BOUNDARY"
        /\ \E m \in NegationMarkers : ContainsNoCase(value.content, m)
        /\ \E a \in 1..Len(config.card.bounded_actions) :
              LET action == config.card.bounded_actions[a] IN
              \/ ContainsNoCase(value.content, action)
              \/ ContainsNoCase(value.content, replace_underscores(action))

\* C26 as stated: create_client fails with a construction error if and only
\* if some BOUNDARY value conflicts with a bounded action; when no conflict
\* exists a client is returned.
C26_Original ==
    IsApplied("create_client") =>
        (result.output.raised <=> HasConflict(result.input))

\* C26: create_client fails with the agreement error if and only if some
\* BOUNDARY value's content contains a negation marker and a bounded action
\* name (as written or with underscores replaced by spaces,
\* case-insensitive); FEAR, COMMITMENT, BELIEF and HOPE values never cause
\* a conflict; without a conflict a client is returned when the window's
\* max_size is at least MIN_WINDOW_SIZE, and construction fails on the
\* window otherwise.
C26_AgreementConflict ==
    IsApplied("create_client") =>
        LET config == result.input
            out == result.output
        IN  /\ HasConflict(config) <=>
                  (out.raised /\
                   out.error = "Card-conscience agreement validation failed")
            /\ ~HasConflict(config) =>
                  (out.raised <=> config.window.max_size < MIN_WINDOW_SIZE)

\* a BOUNDARY value "Don't Send Mail" against the bounded action send_mail,
\* with a window the constructor accepts
C26_Witness ==
    /\ IsApplied("create_client")
    /\ result.input.window.max_size >= MIN_WINDOW_SIZE
    /\ Len(result.input.conscience_values) = 1
    /\ result.input.conscience_values[1].type = "BOUNDARY"
    /\ result.input.conscience_values[1].content[4] = "'"
    /\ result.input.conscience_values[1].content[7] = "S"
    /\ result.input.card.bounded_actions # <<>>
    /\ result.output.raised

(***************************************************************************)
(* Properties of the alert's drift direction (SpecDirection)               *)
(***************************************************************************)
MappedCategories ==
    {"prompt_injection", "value_misalignment", "autonomy_violation",
     "deceptive_reasoning"}

\* the concern categories of the streak, NoConcern entries left out
Collected(cats) == SelectSeq(cats, LAMBDA c : c # NoConcern)

Occurrences(cats, c) == Len(SelectSeq(cats, LAMBDA x : x = c))

FreshBeforePush ==
    LET found == IF IsResettingPush THEN <<>> ELSE win.checkpoints
    IN  SelectSeq(found,
                  LAMBDA cp : cp.timestamp >= now - cfg.max_age_seconds)

\* C28: push evicts by age before it evicts by size: after a push at time
\* now every checkpoint other than the one pushed has
\* timestamp >= now - max_age_seconds, and the eviction by size (oldest
\* dropped in sliding mode, all cleared in fixed mode) happens only if at
\* least max_size checkpoints remain once the stale ones are dropped.
C28_AgeBeforeSize ==
    [][IsPushStep =>
        /\ \A i \in 1..(Len(win'.checkpoints) - 1) :
              win'.checkpoints[i].timestamp >= now - cfg.max_age_seconds
        /\ win'.checkpoints[Len(win'.checkpoints)] = pushedCp'
        /\ win'.checkpoints =
              IF Len(FreshBeforePush) < cfg.max_size
              THEN Append(FreshBeforePush, pushedCp')
              ELSE IF cfg.mode = "sliding"
                   THEN Append(Tail(FreshBeforePush), pushedCp')
                   ELSE <<pushedCp'>>]_vars

\* fixed mode: the fourth push found the window full, dropped the stale
\* third checkpoint and so did not clear the window
C28_Witness ==
    /\ cfg.mode = "fixed"
    /\ nPushed = 4
    /\ Len(win.checkpoints) = 3
    /\ win.checkpoints[1].checkpoint_id = 1
    /\ win.checkpoints[2].checkpoint_id = 2
    /\ win.checkpoints[3].checkpoint_id = 4

(***************************************************************************)
(* The session-context block (SpecWindow)                                  *)
(***************************************************************************)
\* C25: WindowManager.get_context() and the prompt builder's
\* session-context block (built from get_state().checkpoints) are the same
\* text for the same window contents: for an empty window and for a window
\* of n checkpoints, whether n is below max_size or equal to it.
C25_SameContext ==
    get_context(win) = _build_window_section(get_state(win).state.checkpoints)

(***************************************************************************)
(* Properties of the checkpoint's text fields (SpecCheckpoint)             *)
(***************************************************************************)
\* C23: whatever the analysis LLM returns, the raw thinking text is not a
\* substring of any field of the checkpoint: not of the hash, the
\* reasoning_summary, a concern's description or its evidence.
C23_NoLeakage ==
    IsApplied("check_integrity") =>
        \A f \in DOMAIN result.output :
            ~IsSubstring(result.input.thinking, result.output[f])

(***************************************************************************)
(* Properties of truncation (SpecPrompt)                                   *)
(***************************************************************************)
\* C24: for every thinking text and token budget, a text of at most budget
\* tokens (ceil(len / 4)) is passed through unchanged with truncated false
\* and analyzed_tokens = original_tokens; a longer one comes out as head,
\* omission marker, tail with truncated true and
\* analyzed_tokens <= original_tokens.
C24_Truncation ==
    IsApplied("_truncate_thinking_block") =>
        LET text == result.input.text
            budget == result.input.budget
            out == result.output
            head == SubSeq(text, 1, HeadTokens(budget) * 4)
            tail == SubSeq(text, Len(text) - TailTokens(budget) * 4 + 1,
                           Len(text))
        IN  /\ out.original_tokens = (Len(text) + 3) \div 4
            /\ IF out.original_tokens <= budget
               THEN /\ out.text = text
                    /\ ~out.truncated
                    /\ out.analyzed_tokens = out.original_tokens
               ELSE /\ \E omitted \in 0..MaxTextLen :
                         out.text = head \o OmissionMarker(omitted) \o tail
                    /\ out.truncated
                    /\ out.analyzed_tokens <= out.original_tokens

(***************************************************************************)
(* Properties of a streak of checks with callbacks (SpecStreak)            *)
(***************************************************************************)
OnVerdictRaised(r) == r.kind = "raise" /\ r.error = "on_verdict raised"

\* C31: if on_verdict raises during an analysed check, the exception
\* propagates out of check with on_verdict the only callback invoked, and
\* nothing is rolled back: the checkpoint is the window's last and is
\* counted, the drift state has taken the checkpoint in (alert_fired is
\* true when it completed the threshold); on_drift_alert is invoked only by
\* the check that produced the alert, so no later check of the streak
\* delivers it.
C31_VerdictRaises ==
    [][CheckCompletes =>
        /\ OnVerdictRaised(result') =>
              LET cp == win'.checkpoints[Len(win'.checkpoints)] IN
              /\ result'.path = "analysed"
              /\ result'.calls = VerdictThenAlert(FALSE)
              /\ cp.checkpoint_id = nextId + 1
              /\ win'.stats.total_checks = win.stats.total_checks + 1
              /\ drift'.sustained_nonclear =
                    IF cp.verdict = "clear" THEN 0
                    ELSE drift.sustained_nonclear + 1
              /\ (cp.verdict # "clear" /\ ~drift.alert_fired
                    /\ drift.sustained_nonclear + 1
                          >= DEFAULT_SUSTAINED_CHECKS_THRESHOLD)
                    => drift'.alert_fired
        /\ Invocations(result'.calls, "on_drift_alert") > 0 =>
              /\ ~drift.alert_fired
              /\ drift'.alert_fired
              /\ ~OnVerdictRaised(result')
        /\ (drift.alert_fired /\ drift'.alert_fired) =>
              Invocations(result'.calls, "on_drift_alert") = 0]_vars

\* on_verdict raised in the third non-clear check, which produced the
\* alert; the fourth check of the streak returned its signal and
\* on_drift_alert has never been invoked
C31_Witness ==
    /\ cfg.on_verdict
    /\ cfg.on_drift_alert
    /\ alert # NoAlert
    /\ nAlerts = 1
    /\ nCalls = 0
    /\ drift.alert_fired
    /\ drift.sustained_nonclear = 4
    /\ result.kind = "signal"
    /\ result.calls = VerdictThenAlert(FALSE)

(***************************************************************************)
(* Properties of WindowManager.push (SpecWindow)                           *)
(***************************************************************************)
\* C32: after any push, in either mode, under either session-boundary
\* setting and whatever the timestamp of the pushed checkpoint, the window
\* is non-empty and its last element is the checkpoint just pushed.
C32_PushedIsLast ==
    [][IsPushStep =>
        /\ Len(win'.checkpoints) > 0
        /\ win'.size > 0
        /\ win'.checkpoints[Len(win'.checkpoints)] = pushedCp']_vars

\* the checkpoint pushed last is older than max_age_seconds, came with
\* another session id, and is the last element of a window that holds an
\* earlier checkpoint too
C32_Witness ==
    /\ nPushed > 1
    /\ now - pushedCp.timestamp > cfg.max_age_seconds
    /\ pushedCp.session_id # "A"
    /\ win.size > 1
    /\ win.checkpoints[win.size] = pushedCp

(***************************************************************************)
(* Properties of the signals of AIPClient.check (Spec)                     *)
(***************************************************************************)
\* C33: every signal check returns, analysed or synthetic, has proceed true
\* exactly when its verdict is not boundary_violation, and a recommended
\* action of continue or log_and_continue exactly when proceed is true.
C33_ProceedAndAction ==
    result.kind = "signal" =>
        LET signal == result.signal IN
        /\ signal.proceed <=> signal.checkpoint.verdict # "boundary_violation"
        /\ signal.recommended_action \in {"continue", "log_and_continue"}
              <=> signal.proceed

\* an analysed check returned a review_needed signal that proceeds
C33_Witness ==
    /\ result.kind = "signal"
    /\ result.path = "analysed"
    /\ result.signal.checkpoint.verdict = "review_needed"
    /\ result.signal.proceed
    /\ result.signal.recommended_action = "log_and_continue"

\* the check completing in this step pushed a checkpoint to the window
CheckPushes == win'.stats.total_checks = win.stats.total_checks + 1

\* C34: the configured on_verdict is invoked exactly once by each check that
\* pushes a checkpoint and by no other; a check that returns a synthetic
\* signal (extraction miss or analysis-LLM failure) pushes nothing and
\* invokes neither on_verdict nor on_drift_alert.
C34_VerdictOncePerPush ==
    [][CheckCompletes =>
        /\ (CheckPushes /\ cfg.on_verdict) =>
              Invocations(result'.calls, "on_verdict") = 1
        /\ ~CheckPushes => Invocations(result'.calls, "on_verdict") = 0
        /\ (result'.kind = "signal" /\ IsSynthetic(result'.signal)) =>
              /\ result'.path \in {"no_thinking", "llm_failure"}
              /\ ~CheckPushes
              /\ Invocations(result'.calls, "on_verdict") = 0
              /\ Invocations(result'.calls, "on_drift_alert") = 0]_vars

\* with the callbacks configured, an analysis-LLM failure returned a
\* synthetic signal after on_error alone, following an analysed check
C34_Witness ==
    /\ cfg.on_verdict
    /\ cfg.on_drift_alert
    /\ nAnalysed > 0
    /\ win.size > 0
    /\ result.kind = "signal"
    /\ result.path = "llm_failure"
    /\ IsSynthetic(result.signal)
    /\ Invocations(result.calls, "on_error") = 1
    /\ Len(result.calls) = 1

(***************************************************************************)
(* Properties of the drift state of a client (SpecStreak)                  *)
(***************************************************************************)
\* C35: in every reachable drift state of a client (threshold 3),
\* sustained_nonclear is the length of streak_checkpoint_ids, alert_fired
\* implies sustained_nonclear >= 3, and sustained_nonclear = 0 implies that
\* alert_fired is false and both streak lists are empty.
C35_DriftStateShape ==
    /\ drift.sustained_nonclear = Len(drift.streak_checkpoint_ids)
    /\ drift.alert_fired =>
          drift.sustained_nonclear >= DEFAULT_SUSTAINED_CHECKS_THRESHOLD
    /\ drift.sustained_nonclear = 0 =>
          /\ ~drift.alert_fired
          /\ drift.streak_checkpoint_ids = <<>>
          /\ drift.streak_categories = <<>>

\* the drift state is back at zero after a reset_window that ended a streak
\* of three whose alert had fired
C35_Witness ==
    /\ nAlerts = 1
    /\ resetRun = 3
    /\ drift.sustained_nonclear = 0
    /\ win.size = 0
    /\ nextId = 3

\* the ids of the checkpoints in the window
IdsInWindow == {WindowIds[i] : i \in 1..Len(WindowIds)}

\* C36: the streak does not depend on what the window still holds:
\* sustained_nonclear is the number of non-clear analysed checkpoints since
\* the last clear analysed checkpoint or reset_window (runLen), whatever
\* sliding overflow, a fixed-mode clear or stale eviction removed, and the
\* synthetic signals in between leave it as it was.
C36_StreakIgnoresEviction ==
    /\ drift.sustained_nonclear = runLen
    /\ Len(drift.streak_checkpoint_ids) = runLen
    /\ \A i \in 1..Len(drift.streak_checkpoint_ids) :
          drift.streak_checkpoint_ids[i] = nextId - runLen + i

\* a streak of four in a window that holds one of its members only, with an
\* analysis-LLM failure on the way
C36_Witness ==
    /\ runLen = 4
    /\ drift.sustained_nonclear = 4
    /\ win.size = 1
    /\ llmFailed
    /\ Cardinality({i \in 1..4 : drift.streak_checkpoint_ids[i] \in IdsInWindow})
          = 1

(***************************************************************************)
(* Properties of overlapping checks (SpecOverlap)                          *)
(***************************************************************************)
\* the check completing in this step committed a checkpoint
CommitStep == CheckCompletes /\ result'.path = "analysed"

\* what a push leaves of the window, the clock standing still
KeptByPush ==
    IF Len(win.checkpoints) < cfg.max_size THEN win.checkpoints
    ELSE IF cfg.mode = "sliding" THEN Tail(win.checkpoints)
    ELSE <<>>

\* C37: when two checks of one client overlap at the analysis-LLM call, each
\* commit works on the window and the drift state the other's commit left:
\* window_position is read from the window it pushes to, no push and no
\* drift update is lost, the window never exceeds max_size, and a streak
\* produces at most one alert.
C37_CommitsDoNotInterleave ==
    /\ [](/\ Len(win.checkpoints) <= cfg.max_size
          /\ win.size = Len(win.checkpoints)
          /\ win.stats.total_checks = nAnalysed
          /\ drift.sustained_nonclear = runLen
          /\ runAlerts <= 1
          /\ drift.alert_fired <=> runAlerts = 1)
    /\ [][CommitStep =>
            LET cp == win'.checkpoints[Len(win'.checkpoints)] IN
            /\ cp.checkpoint_id = nextId + 1
            /\ cp.window_position.index = win.size
            /\ win'.checkpoints = Append(KeptByPush, cp)
            /\ win'.stats.total_checks = win.stats.total_checks + 1
            /\ drift'.streak_checkpoint_ids =
                  IF cp.verdict = "clear" THEN <<>>
                  ELSE Append(drift.streak_checkpoint_ids, cp.checkpoint_id)
            /\ drift'.sustained_nonclear =
                  IF cp.verdict = "clear" THEN 0
                  ELSE drift.sustained_nonclear + 1]_vars

\* two checks that were suspended together committed the third and fourth
\* checkpoint of a streak, the third producing its one alert and the
\* fourth pushed to a full window
C37_Witness ==
    /\ \A t \in Tasks : pc[t].at = "idle" /\ pc[t].overlapped
    /\ {pc[t].committed : t \in Tasks} = {3, 4}
    /\ drift.sustained_nonclear = 4
    /\ nAlerts = 1
    /\ win.stats.total_checks = 4

C39_RejectedTextLeavesState ==
    [][(CheckCompletes /\ LlmTextRejected(result'))
       => /\ win' = win
          /\ drift' = drift
          /\ nextId' = nextId]_vars

\* a rejected text in the middle of a streak of two, the two checkpoints
\* still in the window
C39_Witness ==
    /\ LlmTextRejected(result)
    /\ win.size = 2
    /\ win.stats.total_checks = 2
    /\ drift.sustained_nonclear = 2
    /\ drift.streak_checkpoint_ids = <<1, 2>>

====
